---- MODULE Spec2Model ----
(***************************************************************************)
(* WorldOfBooksScraper (src/worldofbooks_scraper.py): the bounded crawl of *)
(* a paginated listing, modelled as a state machine.  One action per step  *)
(* of scrape_new_arrivals / scrape_book between two suspension points.     *)
(*                                                                         *)
(* Python values are modelled as tagged records: None, a str (a sequence   *)
(* of one-character strings), a dict (the book_data mapping).  A price is  *)
(* a decimal number held in cents.                                         *)
(***************************************************************************)
EXTENDS Integers, Sequences, FiniteSets, TLC

\* ------------------------------------------------------------------ bounds

\* Largest max_books a run is started with (besides the end-to-end run's 10).
MaxBooks == 2
\* Number of listing pages the live site can serve with links on them.
MaxPages == 1
\* Most links one listing page returns.
MaxLinks == 2
\* Number of listing pages of the deep catalogue with links on them.
MaxDepth == 2

\* ------------------------------------------------------------ Python values

None == [t |-> "none", v |-> <<>>]
Str(s) == [t |-> "str", v |-> s]
IsNone(x) == x.t = "none"
\* Python truthiness of None / str / dict.
Truthy(x) ==
    CASE x.t = "none" -> FALSE
      [] x.t = "str" -> Len(x.v) > 0
      [] x.t = "num" -> x.v # 0
      [] x.t = "list" -> Len(x.v) > 0
      [] x.t = "dict" -> DOMAIN x.v # {}
      [] OTHER -> TRUE

\* A text is a sequence of characters.  A character outside printable ASCII
\* other than \t, \n, \f and \r is written by its code point, as in "߁".

\* [0-9] of a regular expression, \d of a JavaScript one, the digits of str(n).
AsciiDigits == {"0", "1", "2", "3", "4", "5", "6", "7", "8", "9"}

\* The decimal digits of Unicode (category Nd), one row for each run of ten, in
\* the order 0 to 9: what \d of re matches in a str and what float() reads.
DecimalDigits ==
    <<<<"0", "1", "2", "3", "4", "5", "6", "7", "8", "9">>,
      <<"U+0660", "U+0661", "U+0662", "U+0663", "U+0664", "U+0665", "U+0666", "U+0667", "U+0668", "U+0669">>,
      <<"۰", "۱", "۲", "۳", "۴", "۵", "۶", "۷", "۸", "۹">>,
      <<"߀", "߁", "߂", "߃", "߄", "߅", "߆", "߇", "߈", "߉">>,
      <<"U+0966", "U+0967", "U+0968", "U+0969", "U+096A", "U+096B", "U+096C", "U+096D", "U+096E", "U+096F">>,
      <<"০", "১", "২", "৩", "৪", "৫", "৬", "৭", "৮", "৯">>,
      <<"U+0A66", "U+0A67", "U+0A68", "U+0A69", "U+0A6A", "U+0A6B", "U+0A6C", "U+0A6D", "U+0A6E", "U+0A6F">>,
      <<"૦", "૧", "૨", "૩", "૪", "૫", "૬", "૭", "૮", "૯">>,
      <<"U+0B66", "U+0B67", "U+0B68", "U+0B69", "U+0B6A", "U+0B6B", "U+0B6C", "U+0B6D", "U+0B6E", "U+0B6F">>,
      <<"௦", "௧", "௨", "௩", "௪", "௫", "௬", "௭", "௮", "௯">>,
      <<"U+0C66", "U+0C67", "U+0C68", "U+0C69", "U+0C6A", "U+0C6B", "U+0C6C", "U+0C6D", "U+0C6E", "U+0C6F">>,
      <<"೦", "೧", "೨", "೩", "೪", "೫", "೬", "೭", "೮", "೯">>,
      <<"U+0D66", "U+0D67", "U+0D68", "U+0D69", "U+0D6A", "U+0D6B", "U+0D6C", "U+0D6D", "U+0D6E", "U+0D6F">>,
      <<"෦", "෧", "෨", "෩", "෪", "෫", "෬", "෭", "෮", "෯">>,
      <<"U+0E50", "U+0E51", "U+0E52", "U+0E53", "U+0E54", "U+0E55", "U+0E56", "U+0E57", "U+0E58", "U+0E59">>,
      <<"໐", "໑", "໒", "໓", "໔", "໕", "໖", "໗", "໘", "໙">>,
      <<"U+0F20", "U+0F21", "U+0F22", "U+0F23", "U+0F24", "U+0F25", "U+0F26", "U+0F27", "U+0F28", "U+0F29">>,
      <<"U+1040", "U+1041", "U+1042", "U+1043", "U+1044", "U+1045", "U+1046", "U+1047", "U+1048", "U+1049">>,
      <<"႐", "႑", "႒", "႓", "႔", "႕", "႖", "႗", "႘", "႙">>,
      <<"០", "១", "២", "៣", "៤", "៥", "៦", "៧", "៨", "៩">>,
      <<"U+1810", "U+1811", "U+1812", "U+1813", "U+1814", "U+1815", "U+1816", "U+1817", "U+1818", "U+1819">>,
      <<"U+1946", "U+1947", "U+1948", "U+1949", "U+194A", "U+194B", "U+194C", "U+194D", "U+194E", "U+194F">>,
      <<"᧐", "᧑", "᧒", "᧓", "᧔", "᧕", "᧖", "᧗", "᧘", "᧙">>,
      <<"᪀", "᪁", "᪂", "᪃", "᪄", "᪅", "᪆", "᪇", "᪈", "᪉">>,
      <<"᪐", "᪑", "᪒", "᪓", "᪔", "᪕", "᪖", "᪗", "᪘", "᪙">>,
      <<"U+1B50", "U+1B51", "U+1B52", "U+1B53", "U+1B54", "U+1B55", "U+1B56", "U+1B57", "U+1B58", "U+1B59">>,
      <<"᮰", "᮱", "᮲", "᮳", "᮴", "᮵", "᮶", "᮷", "᮸", "᮹">>,
      <<"U+1C40", "U+1C41", "U+1C42", "U+1C43", "U+1C44", "U+1C45", "U+1C46", "U+1C47", "U+1C48", "U+1C49">>,
      <<"U+1C50", "U+1C51", "U+1C52", "U+1C53", "U+1C54", "U+1C55", "U+1C56", "U+1C57", "U+1C58", "U+1C59">>,
      <<"U+A620", "U+A621", "U+A622", "U+A623", "U+A624", "U+A625", "U+A626", "U+A627", "U+A628", "U+A629">>,
      <<"꣐", "꣑", "꣒", "꣓", "꣔", "꣕", "꣖", "꣗", "꣘", "꣙">>,
      <<"U+A900", "U+A901", "U+A902", "U+A903", "U+A904", "U+A905", "U+A906", "U+A907", "U+A908", "U+A909">>,
      <<"꧐", "꧑", "꧒", "꧓", "꧔", "꧕", "꧖", "꧗", "꧘", "꧙">>,
      <<"꧰", "꧱", "꧲", "꧳", "꧴", "꧵", "꧶", "꧷", "꧸", "꧹">>,
      <<"U+AA50", "U+AA51", "U+AA52", "U+AA53", "U+AA54", "U+AA55", "U+AA56", "U+AA57", "U+AA58", "U+AA59">>,
      <<"꯰", "꯱", "꯲", "꯳", "꯴", "꯵", "꯶", "꯷", "꯸", "꯹">>,
      <<"U+FF10", "U+FF11", "U+FF12", "U+FF13", "U+FF14", "U+FF15", "U+FF16", "U+FF17", "U+FF18", "U+FF19">>,
      <<"U+104A0", "U+104A1", "U+104A2", "U+104A3", "U+104A4", "U+104A5", "U+104A6", "U+104A7", "U+104A8", "U+104A9">>,
      <<"U+10D30", "U+10D31", "U+10D32", "U+10D33", "U+10D34", "U+10D35", "U+10D36", "U+10D37", "U+10D38", "U+10D39">>,
      <<"U+11066", "U+11067", "U+11068", "U+11069", "U+1106A", "U+1106B", "U+1106C", "U+1106D", "U+1106E", "U+1106F">>,
      <<"U+110F0", "U+110F1", "U+110F2", "U+110F3", "U+110F4", "U+110F5", "U+110F6", "U+110F7", "U+110F8", "U+110F9">>,
      <<"U+11136", "U+11137", "U+11138", "U+11139", "U+1113A", "U+1113B", "U+1113C", "U+1113D", "U+1113E", "U+1113F">>,
      <<"U+111D0", "U+111D1", "U+111D2", "U+111D3", "U+111D4", "U+111D5", "U+111D6", "U+111D7", "U+111D8", "U+111D9">>,
      <<"U+112F0", "U+112F1", "U+112F2", "U+112F3", "U+112F4", "U+112F5", "U+112F6", "U+112F7", "U+112F8", "U+112F9">>,
      <<"U+11450", "U+11451", "U+11452", "U+11453", "U+11454", "U+11455", "U+11456", "U+11457", "U+11458", "U+11459">>,
      <<"U+114D0", "U+114D1", "U+114D2", "U+114D3", "U+114D4", "U+114D5", "U+114D6", "U+114D7", "U+114D8", "U+114D9">>,
      <<"U+11650", "U+11651", "U+11652", "U+11653", "U+11654", "U+11655", "U+11656", "U+11657", "U+11658", "U+11659">>,
      <<"U+116C0", "U+116C1", "U+116C2", "U+116C3", "U+116C4", "U+116C5", "U+116C6", "U+116C7", "U+116C8", "U+116C9">>,
      <<"U+11730", "U+11731", "U+11732", "U+11733", "U+11734", "U+11735", "U+11736", "U+11737", "U+11738", "U+11739">>,
      <<"U+118E0", "U+118E1", "U+118E2", "U+118E3", "U+118E4", "U+118E5", "U+118E6", "U+118E7", "U+118E8", "U+118E9">>,
      <<"U+11950", "U+11951", "U+11952", "U+11953", "U+11954", "U+11955", "U+11956", "U+11957", "U+11958", "U+11959">>,
      <<"U+11C50", "U+11C51", "U+11C52", "U+11C53", "U+11C54", "U+11C55", "U+11C56", "U+11C57", "U+11C58", "U+11C59">>,
      <<"U+11D50", "U+11D51", "U+11D52", "U+11D53", "U+11D54", "U+11D55", "U+11D56", "U+11D57", "U+11D58", "U+11D59">>,
      <<"U+11DA0", "U+11DA1", "U+11DA2", "U+11DA3", "U+11DA4", "U+11DA5", "U+11DA6", "U+11DA7", "U+11DA8", "U+11DA9">>,
      <<"U+16A60", "U+16A61", "U+16A62", "U+16A63", "U+16A64", "U+16A65", "U+16A66", "U+16A67", "U+16A68", "U+16A69">>,
      <<"U+16AC0", "U+16AC1", "U+16AC2", "U+16AC3", "U+16AC4", "U+16AC5", "U+16AC6", "U+16AC7", "U+16AC8", "U+16AC9">>,
      <<"U+16B50", "U+16B51", "U+16B52", "U+16B53", "U+16B54", "U+16B55", "U+16B56", "U+16B57", "U+16B58", "U+16B59">>,
      <<"U+1D7CE", "U+1D7CF", "U+1D7D0", "U+1D7D1", "U+1D7D2", "U+1D7D3", "U+1D7D4", "U+1D7D5", "U+1D7D6", "U+1D7D7">>,
      <<"U+1D7D8", "U+1D7D9", "U+1D7DA", "U+1D7DB", "U+1D7DC", "U+1D7DD", "U+1D7DE", "U+1D7DF", "U+1D7E0", "U+1D7E1">>,
      <<"U+1D7E2", "U+1D7E3", "U+1D7E4", "U+1D7E5", "U+1D7E6", "U+1D7E7", "U+1D7E8", "U+1D7E9", "U+1D7EA", "U+1D7EB">>,
      <<"U+1D7EC", "U+1D7ED", "U+1D7EE", "U+1D7EF", "U+1D7F0", "U+1D7F1", "U+1D7F2", "U+1D7F3", "U+1D7F4", "U+1D7F5">>,
      <<"U+1D7F6", "U+1D7F7", "U+1D7F8", "U+1D7F9", "U+1D7FA", "U+1D7FB", "U+1D7FC", "U+1D7FD", "U+1D7FE", "U+1D7FF">>,
      <<"U+1E140", "U+1E141", "U+1E142", "U+1E143", "U+1E144", "U+1E145", "U+1E146", "U+1E147", "U+1E148", "U+1E149">>,
      <<"U+1E2F0", "U+1E2F1", "U+1E2F2", "U+1E2F3", "U+1E2F4", "U+1E2F5", "U+1E2F6", "U+1E2F7", "U+1E2F8", "U+1E2F9">>,
      <<"U+1E950", "U+1E951", "U+1E952", "U+1E953", "U+1E954", "U+1E955", "U+1E956", "U+1E957", "U+1E958", "U+1E959">>,
      <<"U+1FBF0", "U+1FBF1", "U+1FBF2", "U+1FBF3", "U+1FBF4", "U+1FBF5", "U+1FBF6", "U+1FBF7", "U+1FBF8", "U+1FBF9">>>>
Digits == {DecimalDigits[r][k] : r \in 1..Len(DecimalDigits), k \in 1..10}

\* The characters str.strip() removes: those for which str.isspace() holds.
Whitespace ==
    {"\t", "\n", "", "\f", "\r", "", "", "",
    "", " ", "", " ", " ", "U+2000", "U+2001", "U+2002",
    "U+2003", "U+2004", "U+2005", "U+2006", "U+2007", "U+2008", "U+2009", "U+200A",
    "U+2028", "U+2029", "U+202F", "U+205F", "U+3000"}

\* \s of a JavaScript regular expression and the characters trim() removes.
JsWhiteSpace ==
    {"\t", "\n", "", "\f", "\r", " ", " ", " ",
    "U+2000", "U+2001", "U+2002", "U+2003", "U+2004", "U+2005", "U+2006", "U+2007",
    "U+2008", "U+2009", "U+200A", "U+2028", "U+2029", "U+202F", "U+205F", "U+3000",
    "﻿"}

Min(S) == CHOOSE x \in S : \A y \in S : x <= y
Max(S) == CHOOSE x \in S : \A y \in S : x >= y

\* str.strip(chars): leading and trailing characters of cs removed.
StripChars(s, cs) ==
    LET keep == {i \in 1..Len(s) : s[i] \notin cs}
    IN  IF keep = {} THEN <<>> ELSE SubSeq(s, Min(keep), Max(keep))

\* str.split(sep) for a one-character separator: always at least one part.
RECURSIVE Split(_, _)
Split(s, sep) ==
    LET at == {i \in 1..Len(s) : s[i] = sep}
    IN  IF at = {} THEN <<s>>
        ELSE <<SubSeq(s, 1, Min(at) - 1)>> \o Split(SubSeq(s, Min(at) + 1, Len(s)), sep)

DigitVal(c) ==
    CASE c = "0" -> 0 [] c = "1" -> 1 [] c = "2" -> 2 [] c = "3" -> 3 [] c = "4" -> 4
      [] c = "5" -> 5 [] c = "6" -> 6 [] c = "7" -> 7 [] c = "8" -> 8 [] c = "9" -> 9
      [] OTHER ->
            (CHOOSE k \in 1..10 : \E r \in 1..Len(DecimalDigits) : DecimalDigits[r][k] = c) - 1

\* int() of a non-empty run of decimal digits.
RECURSIVE ToInt(_)
ToInt(ds) ==
    IF Len(ds) = 0 THEN 0
    ELSE 10 * ToInt(SubSeq(ds, 1, Len(ds) - 1)) + DigitVal(ds[Len(ds)])

\* str(n): the decimal digits of n, with a minus sign before them when n < 0.
DigitChar(d) == CHOOSE c \in AsciiDigits : DigitVal(c) = d
RECURSIVE DecDigits(_)
DecDigits(n) ==
    IF n < 10 THEN <<DigitChar(n)>>
    ELSE DecDigits(n \div 10) \o <<DigitChar(n % 10)>>
PyStr(n) == IF n < 0 THEN <<"-">> \o DecDigits(-n) ELSE DecDigits(n)

\* ------------------------------------------------------------ _extract_price

\* End of the maximal run of digits that starts at i (s[i] is a digit).
RunEnd(s, i) ==
    Max({j \in i..Len(s) : \A k \in i..j : s[k] \in Digits})

\* re.search(r'€?(\d+\.\d{2})'): the starts at which \d+\.\d{2} matches.  \d+ is
\* greedy and what follows it must be a '.', so the run taken is the maximal one.
DecimalStarts(s) ==
    {i \in 1..Len(s) :
        /\ s[i] \in Digits
        /\ LET e == RunEnd(s, i)
           IN  /\ e + 3 <= Len(s)
               /\ s[e + 1] = "."
               /\ s[e + 2] \in Digits
               /\ s[e + 3] \in Digits}

\* Cents with float(euros): the cents are dropped.
CentsDropped(euros, cents) == [t |-> "num", v |-> 100 * ToInt(euros)]

\* float(f"{euros}.{cents}") held as cents.
Cents(euros, cents) == [t |-> "num", v |-> 100 * ToInt(euros) + ToInt(cents)]

_extract_price(price_text) ==
    IF ~Truthy(price_text) THEN None
    ELSE LET s == price_text.v
             dec == DecimalStarts(s)
             dig == {i \in 1..Len(s) : s[i] \in Digits}
         IN  IF dec # {}
             THEN LET i == Min(dec)
                      e == RunEnd(s, i)
                  IN  Cents(SubSeq(s, i, e), SubSeq(s, e + 2, e + 3))
             ELSE IF dig # {}
             THEN \* r'(\d+)\.?(\d{2})?' at the leftmost digit
                  LET i == Min(dig)
                      e == RunEnd(s, i)
                      d == IF e + 1 <= Len(s) /\ s[e + 1] = "." THEN e + 1 ELSE e
                      two == /\ d + 2 <= Len(s)
                             /\ s[d + 1] \in Digits
                             /\ s[d + 2] \in Digits
                      cents == IF two THEN SubSeq(s, d + 1, d + 2) ELSE <<"0", "0">>
                  IN  Cents(SubSeq(s, i, e), cents)
             ELSE None

\* ----------------------------------------------------- _extract_sku_from_url

\* _extract_sku_from_url without strip('/'): a trailing slash leaves an empty
\* last segment.
_extract_sku_from_url_unstripped(url) ==
    LET parts == Split(url, "/")
        potential_sku == parts[Len(parts)]
    IN  IF Len(parts) > 0 /\ Len(potential_sku) > 0 /\ Len(potential_sku) > 5
        THEN Str(potential_sku)
        ELSE None

\* _extract_sku_from_url accepting a segment of five characters.
_extract_sku_from_url_min5(url) ==
    LET parts == Split(StripChars(url, {"/"}), "/")
        potential_sku == parts[Len(parts)]
    IN  IF Len(parts) > 0 /\ Len(potential_sku) > 0 /\ Len(potential_sku) >= 5
        THEN Str(potential_sku)
        ELSE None

_extract_sku_from_url(url) ==
    LET parts == Split(StripChars(url, {"/"}), "/")
        potential_sku == parts[Len(parts)]
    IN  IF Len(parts) > 0 /\ Len(potential_sku) > 0 /\ Len(potential_sku) > 5
        THEN Str(potential_sku)
        ELSE None

\* ----------------------------------------------------------------- fallback SKU

\* format(n, "0{width}d"): the sign if any, then the digits of n with zeros put
\* before them up to width characters in all; a longer number is not cut.
ZeroPad(n, width) ==
    LET sign == IF n < 0 THEN <<"-">> ELSE <<>>
        digits == DecDigits(IF n < 0 THEN -n ELSE n)
        fill == Max({width - Len(sign) - Len(digits), 0})
    IN  sign \o [i \in 1..fill |-> "0"] \o digits

\* The remainder that takes the sign of the dividend (C's %).
CRem(a, b) == IF a >= 0 THEN a % b ELSE -((-a) % b)

\* Python's a % b for b > 0: the remainder of the floor division, in 0..b-1.
PyMod(a, b) == a % b

\* f"WOB-{hash(url) % 10000000:07d}"
FallbackModulus == 10000000

\* A signed 64-bit integer, held in three parts because the integers of the
\* model checker have 32 bits: the number is
\* sign * ((high * 10000000 + mid) * 10000000 + low), mid and low in 0..9999999.
Int64(sign, high, mid, low) ==
    [sign |-> sign, high |-> high, mid |-> mid, low |-> low]

\* The Int64 of an integer of the model checker.
Widen(n) ==
    LET a == IF n < 0 THEN -n ELSE n
    IN  Int64(IF n < 0 THEN -1 ELSE 1, 0, a \div FallbackModulus, a % FallbackModulus)

\* h % 10000000: the weights of mid and high are multiples of the modulus, so
\* the remainder is that of the signed low part.
Int64Mod(h) == PyMod(h.sign * h.low, FallbackModulus)

\* hash(url): the interpreter's hash of a str (SipHash, 64 bits, signed), keyed
\* by a key drawn when the process starts.  Within a process it is a function
\* of the text, and the empty text hashes to 0 under every key.  A process is
\* given by the table of the values its hash has on the texts hashed, which is
\* all the code sees of the key.
PyHash(url, seed) == seed[url]

FallbackOfHash(h) ==
    Str(<<"W", "O", "B", "-">> \o ZeroPad(Int64Mod(h), 7))
FallbackSku(url, seed) == FallbackOfHash(PyHash(url, seed))

\* ------------------------------------------------------------------ the site

Raise == [t |-> "raise", v |-> <<>>]
Cancel == [t |-> "cancel", v |-> <<>>]
Pending == [t |-> "pending", v |-> <<>>]
Num(n) == [t |-> "num", v |-> n]
List(l) == [t |-> "list", v |-> l]
Dict(d) == [t |-> "dict", v |-> d]

\* Item URLs the listing pages link to: a six-character last segment, one with
\* a trailing slash, and a five-character last segment (no SKU in the URL).
UrlA == <<"w", "/", "b", "o", "o", "k", "0", "1">>
UrlB == <<"w", "/", "b", "o", "o", "k", "0", "2", "/">>
UrlC == <<"w", "/", "b", "k", "0", "0", "3">>
Urls == {UrlA, UrlB, UrlC}

\* The texts hash() is tabulated for: the item URLs, the empty text, the URL
\* "/", two short URLs and one whose token has six characters.
UrlSlash == <<"/">>
UrlShortA == <<"w", "/", "a">>
UrlShortZ == <<"w", "/", "z">>
UrlD == <<"/", "b", "o", "o", "k", "0", "3">>
HashedUrls == Urls \cup {<<>>, UrlSlash, UrlShortA, UrlShortZ, UrlD}

\* The hash tables of two processes: the values CPython 3.11 gives when it is
\* started with PYTHONHASHSEED=1 and with PYTHONHASHSEED=2.
HashTable(empty, slash, short_a, short_z, a, b, c, d) ==
    [url \in HashedUrls |->
        CASE url = <<>> -> empty
          [] url = UrlSlash -> slash
          [] url = UrlShortA -> short_a
          [] url = UrlShortZ -> short_z
          [] url = UrlA -> a
          [] url = UrlB -> b
          [] url = UrlC -> c
          [] url = UrlD -> d]
HashTableOne ==
    HashTable(Int64(1, 0, 0, 0),
              Int64(-1, 72826, 2838849, 9701735),
              Int64(1, 823, 885468, 859883),
              Int64(-1, 54006, 6987164, 5540418),
              Int64(1, 23150, 5723612, 92405),
              Int64(1, 36478, 1157186, 9849238),
              Int64(1, 39951, 7966432, 5608944),
              Int64(-1, 15433, 1519249, 5735684))
HashTableTwo ==
    HashTable(Int64(1, 0, 0, 0),
              Int64(1, 50464, 8540588, 6402002),
              Int64(-1, 7769, 694616, 5700658),
              Int64(1, 25618, 9817587, 1570794),
              Int64(-1, 48196, 9735330, 6460259),
              Int64(-1, 54020, 3187655, 6005938),
              Int64(1, 90901, 8837894, 9003398),
              Int64(1, 21509, 1460504, 1447574))

\* What an item page holds: the text_content of each selected element (None: no
\* such element) and the value of each in-page evaluation.
ItemPage(title, author, price, sku, image) ==
    [title |-> title, author |-> author, price |-> price, sku |-> sku,
     isbn |-> None, condition |-> None, binding |-> None, description |-> None,
     image |-> image, publication |-> None]

PageA == ItemPage(Str(<<" ", "A", "\n">>), Str(<<"Z">>),
                  Str(<<"€", "9", ".", "9", "9">>),
                  Str(<<"b", "o", "o", "k", "0", "2">>), Str(<<"i">>))
PageB == ItemPage(Str(<<"B">>), None, Str(<<"2", "0">>), None, None)
PageBlankTitle == ItemPage(Str(<<" ", " ">>), Str(<<"Z">>), None, None, None)
PageEmptyTitle == ItemPage(Str(<<>>), None, None, None, None)
PageNoTitle == ItemPage(None, Str(<<"Z">>), Str(<<"2", "0">>), None, None)
PageBlankAuthor == ItemPage(Str(<<"C">>), Str(<<" ">>), None, None, None)
\* The last page is one whose author element reads "Unknown".
ItemPages ==
    {PageA, PageB, PageBlankTitle, PageEmptyTitle, PageNoTitle, PageBlankAuthor,
     ItemPage(Str(<<"D">>), Str(<<"U", "n", "k", "n", "o", "w", "n">>), None, None, None)}

\* Identifiers the store may hold before the run.
InitialSkus == {<<"b", "o", "o", "k", "0", "2">>}

\* ------------------------------------------------------------ field extractors

\* _get_text: the stripped text_content, None when there is no element, when the
\* query raises, or when the text is None or empty.
_get_text(text_content) ==
    IF text_content.t = "str" /\ Truthy(text_content)
    THEN Str(StripChars(text_content.v, Whitespace))
    ELSE None

\* Lines 83 and 222: _extract_sku_from_url of each URL met, tabulated once.
UrlSku == [url \in HashedUrls |-> _extract_sku_from_url(url)]

\* Line 152: _extract_price of each price text of the catalogue, tabulated once.
PagePrice ==
    [text \in {_get_text(page.price) : page \in ItemPages} |-> _extract_price(text)]

\* _extract_sku: the URL's token, else the page's identifier, else the hash fallback.
_extract_sku(page, url, seed) ==
    LET sku == UrlSku[url]
    IN  IF Truthy(sku) THEN sku
        ELSE IF page.sku.t # "raise" /\ Truthy(page.sku) THEN page.sku
        ELSE FallbackSku(url, seed)

\* s has sub at position i.
Occurs(s, sub, i) ==
    /\ i >= 1
    /\ i + Len(sub) - 1 <= Len(s)
    /\ SubSeq(s, i, i + Len(sub) - 1) = sub

\* The letters of the keyword under the i flag.
IsbnKeyword == <<{"I", "i"}, {"S", "s"}, {"B", "b"}, {"N", "n"}>>

\* /ISBN[:\s]*(97[89]\d{10}|\d{9}[0-9X])/i tried with the keyword at i: the
\* captured group, <<>> when there is no match there.  [:\s]* is greedy and
\* what follows it must be a digit, so it takes the whole run.
IsbnAt(s, i) ==
    LET after == {k \in (i + 4)..Len(s) : s[k] \notin ({":"} \cup JsWhiteSpace)}
        j == IF after = {} THEN Len(s) + 1 ELSE Min(after)
        keyword == /\ i + 3 <= Len(s)
                   /\ \A k \in 1..4 : s[i + k - 1] \in IsbnKeyword[k]
        thirteen == /\ j + 12 <= Len(s)
                    /\ s[j] = "9"
                    /\ s[j + 1] = "7"
                    /\ s[j + 2] \in {"8", "9"}
                    /\ \A k \in (j + 3)..(j + 12) : s[k] \in AsciiDigits
        ten == /\ j + 9 <= Len(s)
               /\ \A k \in j..(j + 8) : s[k] \in AsciiDigits
               /\ s[j + 9] \in AsciiDigits \cup {"X", "x"}
    IN  IF ~keyword THEN <<>>
        ELSE IF thirteen THEN SubSeq(s, j, j + 12)
        ELSE IF ten THEN SubSeq(s, j, j + 9)
        ELSE <<>>

\* text.match(...): the group of the leftmost match, null without a match.
IsbnMatch(text) ==
    LET starts == {i \in 1..Len(text) : IsbnAt(text, i) # <<>>}
    IN  IF starts = {} THEN None ELSE Str(IsbnAt(text, Min(starts)))

\* if (data.isbn) of the page's script (line 269): null, the empty string and
\* zero are false; every list and every object is true, the empty ones too.
JsTruthy(x) ==
    CASE x.t = "none" -> FALSE
      [] x.t = "str" -> Len(x.v) > 0
      [] x.t = "num" -> x.v # 0
      [] OTHER -> TRUE

\* The in-page evaluation of _extract_isbn (lines 257-277): the details
\* container's text, then the structured data's isbn, then the page text.
IsbnEvaluate(details, json_isbn, body) ==
    IF details.t = "str" /\ ~IsNone(IsbnMatch(details.v)) THEN IsbnMatch(details.v)
    ELSE IF JsTruthy(json_isbn) THEN json_isbn
    ELSE IsbnMatch(body.v)

\* _extract_isbn without the re.sub.
_extract_isbn_unfiltered(isbn) ==
    IF isbn.t = "str" /\ Truthy(isbn) THEN isbn ELSE None

\* _extract_isbn: the evaluated value with every character outside 0-9X removed;
\* None for a value false in Python, and for a true value that is no text, on
\* which re.sub raises inside the try.
_extract_isbn(isbn) ==
    IF isbn.t = "str" /\ Truthy(isbn)
    THEN Str(SelectSeq(isbn.v, LAMBDA c : c \in AsciiDigits \cup {"X"}))
    ELSE None

\* ------------------------------------------------------------ _extract_binding

\* Lines 293-297: bindingTerms, in the order of the source.
bindingTerms ==
    <<<<"h", "a", "r", "d", "c", "o", "v", "e", "r">>,
      <<"h", "a", "r", "d", "b", "a", "c", "k">>,
      <<"h", "a", "r", "d", " ", "c", "o", "v", "e", "r">>,
      <<"h", "a", "r", "d", " ", "b", "a", "c", "k">>,
      <<"p", "a", "p", "e", "r", "b", "a", "c", "k">>,
      <<"s", "o", "f", "t", "c", "o", "v", "e", "r">>,
      <<"s", "o", "f", "t", " ", "c", "o", "v", "e", "r">>,
      <<"s", "o", "f", "t", " ", "b", "a", "c", "k">>,
      <<"l", "e", "a", "t", "h", "e", "r", " ", "b", "o", "u", "n", "d">>,
      <<"l", "e", "a", "t", "h", "e", "r", "b", "o", "u", "n", "d">>,
      <<"a", "u", "d", "i", "o", " ", "c", "d">>,
      <<"a", "u", "d", "i", "o", "b", "o", "o", "k">>>>

AsciiUpper == <<"A", "B", "C", "D", "E", "F", "G", "H", "I", "J", "K", "L", "M", "N", "O", "P", "Q", "R", "S", "T", "U", "V", "W", "X", "Y", "Z">>
AsciiLower == <<"a", "b", "c", "d", "e", "f", "g", "h", "i", "j", "k", "l", "m", "n", "o", "p", "q", "r", "s", "t", "u", "v", "w", "x", "y", "z">>
LetterIndex(c, letters) == CHOOSE k \in 1..Len(letters) : letters[k] = c
\* String.prototype.toUpperCase and toLowerCase over ASCII text.
toUpperCase(s) ==
    [k \in 1..Len(s) |->
        IF \E j \in 1..Len(AsciiLower) : AsciiLower[j] = s[k]
        THEN AsciiUpper[LetterIndex(s[k], AsciiLower)] ELSE s[k]]
toLowerCase(s) ==
    [k \in 1..Len(s) |->
        IF \E j \in 1..Len(AsciiUpper) : AsciiUpper[j] = s[k]
        THEN AsciiLower[LetterIndex(s[k], AsciiUpper)] ELSE s[k]]

\* \w of a regular expression: ASCII letters, digits and the underscore.
WordChars ==
    {AsciiUpper[k] : k \in 1..Len(AsciiUpper)} \cup {AsciiLower[k] : k \in 1..Len(AsciiLower)}
    \cup AsciiDigits \cup {"_"}

\* \b just before text[i]: a word character on exactly one side.
WordBoundary(text, i) ==
    (i > 1 /\ text[i - 1] \in WordChars) # (i <= Len(text) /\ text[i] \in WordChars)

\* Line 299: the expression \bterm\b with flag i matches text from position i.
TermAt(text, term, i) ==
    /\ i + Len(term) - 1 <= Len(text)
    /\ toUpperCase(SubSeq(text, i, i + Len(term) - 1)) = toUpperCase(term)
    /\ WordBoundary(text, i)
    /\ WordBoundary(text, i + Len(term))

\* Line 300: regex.test(text).
regex_test(text, term) == \E i \in 1..Len(text) : TermAt(text, term, i)

\* Lines 288-306: the in-page evaluation; details is the text content of the
\* details container, None when the page has no such container.
BindingEvaluate(details) ==
    IF details.t = "none" THEN None
    ELSE LET hits == {k \in 1..Len(bindingTerms) : regex_test(details.v, bindingTerms[k])}
         IN  IF hits = {} THEN None
             ELSE LET term == bindingTerms[Min(hits)]
                  IN  Str(toUpperCase(<<term[1]>>) \o toLowerCase(Tail(term)))

\* _extract_binding: the evaluated value, None when the evaluation raises.
_extract_binding(binding) == IF binding.t = "raise" THEN None ELSE binding

\* _extract_publication_details: (publisher, year) of the evaluated mapping.
_extract_publication_details(publication_info) ==
    IF publication_info.t = "dict"
    THEN <<publication_info.v.publisher, publication_info.v.year>>
    ELSE <<None, None>>

Unknown == <<"U", "n", "k", "n", "o", "w", "n">>

\* AuthorOrUnknown with the default for every text.
AuthorAlwaysUnknown(author) == Str(Unknown)

\* ... or "Unknown" (line 150).
AuthorOrUnknown(author) == IF Truthy(author) THEN author ELSE Str(Unknown)

\* NoTitle with the test "title is None": an empty string passes.
NoTitleOnlyNone(title) == IsNone(title)

\* if not title (line 145).
NoTitle(title) == ~Truthy(title)

\* The keys of the record of lines 167-180.
RecordShape ==
    {"title", "author", "isbn", "sku", "wob_price", "wob_url", "condition",
     "binding", "publisher", "publication_year", "description", "image_url"}

RareNonFiction ==
    <<"R", "a", "r", "e", " ", "N", "o", "n", "-", "F", "i", "c", "t", "i", "o", "n">>

\* book_data.update({"category": ..., "subcategory": None})
WithCategory(book_data) ==
    Dict([k \in DOMAIN book_data.v \cup {"category", "subcategory"} |->
            CASE k = "category" -> Str(RareNonFiction)
              [] k = "subcategory" -> None
              [] OTHER -> book_data.v[k]])

\* ---------------------------------------------------------------------- state

VARIABLES
    site,            \* "live": the site answers anything; "fixture": the recorded
                     \* run; "deep": a catalogue with links on MaxDepth pages
    hash_seed,       \* the process's string-hash key, as the table of its hash values
    store,           \* identifiers the persistence collaborator holds
    max_books,       \* the run's argument
    pc,              \* where scrape_new_arrivals stands
    session,         \* "none", "open", "closed": browser and context
    listing_open,    \* the listing page handle is open
    book_pages_open, \* item page handles open
    scraped_count,
    skipped_count,
    page_num,
    tally,           \* history: links taken up, lookups that found a record,
                     \* inserts that returned an id
    raw_links,       \* what the evaluation of the link query came to
    book_links,      \* the links of the current listing page
    idx,             \* how many of them the for loop has taken
    item_page,       \* what the loaded item page holds (None: none loaded)
    book_data,       \* what scrape_book returned for the current link
    stop,            \* why the pagination loop ended ("none" while it runs)
    ret,             \* what the caller gets: the value returned, the Exception
                     \* or the cancellation that leaves the run (None until then)
    loaded,          \* listing pages requested, in order, each with its outcome
    nav_count,       \* item-page navigations made so far
    page_sleeps,     \* page-transition delays taken
    calls,           \* calls made for the current link, in order, with results
    extracted,       \* scrape_book's locals of lines 143-165, by the key each gets
                     \* in the record (Pending: not assigned)
    got_text,        \* history: what the last call of _get_text returned
    element,         \* the text content of the element _get_text holds between
                     \* its two awaits (Pending: it holds none)
    parse_op,        \* the field parser applied on its own ("none": a crawl)
    parse_in,        \* the value it is applied to
    parse_out        \* its result (Pending until it has run)

vars == <<site, hash_seed, store, max_books, pc, session, listing_open,
          book_pages_open, scraped_count, skipped_count, page_num, tally,
          raw_links, book_links,
          idx, item_page, book_data, stop, ret, loaded, nav_count, page_sleeps,
          calls, extracted, element, got_text, parse_op, parse_in, parse_out>>

\* scrape_book with none of its locals assigned.
NoLocals == [k \in RecordShape |-> Pending]

HashSeeds == {HashTableOne, HashTableTwo}

\* The recorded end-to-end run: page 1 lists three items, the second one already
\* stored; page 2 lists nothing; every capability call succeeds.
FixtureListing(p) == IF p = 1 THEN <<UrlA, UrlB, UrlC>> ELSE <<>>
FixtureStore == {<<"b", "o", "o", "k", "0", "2">>}
FixturePage(url) == IF url = UrlA THEN PageA ELSE PageB

\* Outcomes of an awaited call: a value, None, an exception, or the
\* cancellation of the task while it waits.  On the deep catalogue a call
\* gives a value or None; in the recorded run every call gives a value.
CallOutcomes ==
    IF site = "live" THEN {"ok", "none", "raise", "cancel"}
    ELSE IF site = "deep" THEN {"ok", "none"}
    ELSE {"ok"}
\* Outcomes of a navigation: a success response, None, a non-success status,
\* an exception, or the cancellation of the task.
GotoOutcomes ==
    IF site = "live" THEN {"ok", "none", "not_ok", "raise", "cancel"}
    ELSE IF site = "deep" THEN {"ok", "none"}
    ELSE {"ok"}

\* What the evaluation in _extract_book_links can yield on listing page p: a list
\* of hrefs, null, an exception, or the cancellation of the task.  The live site
\* has links on MaxPages pages, the deep catalogue on MaxDepth pages.
LinkLists == UNION {[1..n -> Urls] : n \in 0..MaxLinks}
LinkOutcomes(p) ==
    IF site = "fixture" THEN {List(FixtureListing(p))}
    ELSE IF site = "deep" THEN
        IF p <= MaxDepth THEN {List(l) : l \in LinkLists} ELSE {List(<<>>)}
    ELSE IF p <= MaxPages THEN {List(l) : l \in LinkLists} \cup {None, Raise, Cancel}
    ELSE {List(<<>>), None, Raise, Cancel}

\* The item page the site serves for a URL.
PageOutcomes(url) == IF site = "fixture" THEN {FixturePage(url)} ELSE ItemPages

\* ------------------------------------------------- persistence collaborator

\* get_book_by_sku(sku): the stored record, or None.
get_book_by_sku(sku) == IF sku.v \in store THEN Dict([sku |-> sku]) ELSE None

\* add_book(book_data): a new id, or a rejection when the identifier is stored
\* already (no id returned, or a duplicate-key error raised).
AddBookOutcomes(book) == IF book.v.sku.v \in store THEN {"none", "raise"} ELSE {"id"}

Init ==
    /\ site \in {"live", "fixture"}
    /\ hash_seed \in HashSeeds
    /\ store \in (IF site = "fixture" THEN {FixtureStore} ELSE SUBSET InitialSkus)
    /\ max_books \in (IF site = "fixture" THEN {10} ELSE 0..MaxBooks)
    /\ pc = "start"
    /\ session = "none"
    /\ listing_open = FALSE
    /\ book_pages_open = 0
    /\ scraped_count = 0
    /\ skipped_count = 0
    /\ page_num = 1
    /\ tally = [links |-> 0, hits |-> 0, ids |-> 0]
    /\ raw_links = None
    /\ book_links = <<>>
    /\ idx = 0
    /\ item_page = None
    /\ book_data = None
    /\ stop = "none"
    /\ ret = None
    /\ loaded = <<>>
    /\ nav_count = 0
    /\ page_sleeps = 0
    /\ calls = <<>>
    /\ extracted = NoLocals
    /\ got_text = Pending
    /\ element = Pending
    /\ parse_op = "none"
    /\ parse_in = None
    /\ parse_out = Pending

\* ----------------------------------------------------------------- counters

\* Inc with a step of two.
IncByTwo(n) == n + 2

\* n += 1 (lines 86, 108).
Inc(n) == n + 1

\* The record of requests grows by one entry.
Log(seq, e) == Append(seq, e)

\* The history of the run: one more link taken up by the for loop, one more
\* lookup that found a record, one more insert that returned an id.
Count(t, what) == [t EXCEPT ![what] = Inc(@)]
Looked(t, found) == IF found.t = "dict" THEN Count(t, "hits") ELSE t

\* ------------------------------------------------------------- the session

\* BaseScraper.close(): the browser and its context are closed, and with them
\* every page handle that belongs to them.
close ==
    /\ session' = "closed"
    /\ listing_open' = FALSE
    /\ book_pages_open' = 0

\* ----------------------------------------------------- the loop's decisions

\* UnderBudget with <= for <.
UnderBudgetInclusive(count, limit) == count <= limit

\* while scraped_count < max_books (line 50) and the same test at line 107.
UnderBudget(count, limit) == count < limit

\* BudgetReached with > for >=.
BudgetReachedOffByOne(count, limit) == count > limit

\* if scraped_count >= max_books: break (line 80).
BudgetReached(count, limit) == count >= limit

\* response is None, or not response.ok (lines 61-66).
ListingFailed(outcome) == outcome \in {"none", "not_ok"}

\* _extract_book_links keeping only the first occurrence of each href.
_extract_book_links_deduped(links) ==
    IF links.t # "list" THEN <<>>
    ELSE LET l == links.v
             first == {i \in 1..Len(l) : \A j \in 1..(i - 1) : l[j] # l[i]}
         IN  [k \in 1..Cardinality(first) |->
                l[CHOOSE i \in first : Cardinality({j \in first : j <= i}) = k]]

\* _extract_book_links: the evaluated list, [] when it is null or empty or the
\* evaluation raises.
_extract_book_links(links) == IF links.t = "list" THEN links.v ELSE <<>>

\* book_links is None or not book_links (line 73).
NoLinks(links) == Len(links) = 0

\* _is_book_in_database returning "book is None".
_is_book_in_database_inverted(sku) ==
    IF ~Truthy(sku) THEN FALSE ELSE IsNone(get_book_by_sku(sku))

\* _is_book_in_database(sku)
_is_book_in_database(sku) ==
    IF ~Truthy(sku) THEN FALSE ELSE ~IsNone(get_book_by_sku(sku))

\* AlreadyStored with the gate's answer ignored.
AlreadyStoredNever(sku) == FALSE

\* sku and await self._is_book_in_database(sku) (line 84).
AlreadyStored(sku) == Truthy(sku) /\ _is_book_in_database(sku)

\* book_data and book_data.get("title") (line 95).
HasTitle(data) == IF data.t = "dict" THEN Truthy(data.v.title) ELSE FALSE

\* Accepted with the count left out: no insert counts.
AcceptedNever(outcome) == FALSE

\* Accepted without the book_id test: every return of add_book counts.
AcceptedAnyReturn(outcome) == outcome # "raise"

\* if book_id (line 101).
Accepted(outcome) == outcome = "id"

\* BookLoadFailed with only the "not response" test.
BookLoadFailedOnlyNone(outcome) == outcome = "none"

\* not response or not response.ok (line 136).
BookLoadFailed(outcome) == outcome \in {"none", "not_ok"}

\* config.WOB_TARGET_URL, kept in self.target_url (line 25).
WOB_TARGET_URL == <<"w", "/", "n", "e", "w">>
PageParam == <<"p", "a", "g", "e", "=">>

\* current_page_url with the page parameter always introduced by "?".
current_page_url_question(target_url, n) ==
    IF n > 1 THEN target_url \o <<"?">> \o PageParam \o PyStr(n)
    ELSE target_url

\* Lines 51-56: the URL of listing page n, built from the target URL.
current_page_url(target_url, n) ==
    IF n > 1
    THEN IF \E i \in 1..Len(target_url) : target_url[i] = "?"
         THEN target_url \o <<"&">> \o PageParam \o PyStr(n)
         ELSE target_url \o <<"?">> \o PageParam \o PyStr(n)
    ELSE target_url

Call(op, arg, res) == [op |-> op, arg |-> arg, res |-> res]
Load(page, res) ==
    [page |-> page, url |-> current_page_url(WOB_TARGET_URL, page), res |-> res]

\* An exception reaching the outer handler (lines 117-118): the loop is left,
\* page.close() at line 115 is not reached.
Caught ==
    /\ pc' = "finally"
    /\ stop' = "exception"

\* asyncio.CancelledError, raised at an await when the task is cancelled, is no
\* Exception: it passes the handlers of lines 104, 117 and 185 and those of the
\* field helpers; the finally clause of line 120 runs and the caller gets it.
Cancelled ==
    /\ pc' = "finally"
    /\ stop' = "cancelled"

\* What the run hands to its caller when the finally clause is through: the
\* cancellation, the 0 of line 46, or the count (line 124).
ReturnValue ==
    IF stop = "cancelled" THEN Cancel
    ELSE IF stop = "no_page" THEN Num(0)
    ELSE Num(scraped_count)

\* ItemErrorCaught without the handler around one item: the exception reaches
\* the outer handler.
ItemErrorPropagates ==
    /\ pc' = "finally"
    /\ stop' = "exception"

\* An exception of scrape_book or add_book reaching the handler around one
\* item (lines 104-105): the for loop goes on.
ItemErrorCaught ==
    /\ pc' = "for"
    /\ stop' = stop

\* ------------------------------------------------------------------- actions

\* Lines 29-31: initialize(), which stands outside the try: what it raises
\* leaves the run at once.
Initialize ==
    /\ pc = "start"
    /\ \E r \in CallOutcomes :
        \/ /\ r = "ok"
           /\ session' = "open"
           /\ pc' = "new_page"
           /\ UNCHANGED <<stop, ret>>
        \/ /\ r = "none"
           /\ pc' = "close_no_session"
           /\ UNCHANGED <<session, stop, ret>>
        \/ /\ r \in {"raise", "cancel"}
           /\ stop' = "raised"
           /\ ret' = (IF r = "cancel" THEN Cancel ELSE Raise)
           /\ pc' = "done"
           /\ UNCHANGED session
    /\ UNCHANGED <<parse_op, parse_in, parse_out, extracted, element, got_text, tally, raw_links, site,
                   hash_seed, store, max_books, listing_open,
                   book_pages_open, scraped_count, skipped_count, page_num,
                   book_links, idx, item_page, book_data, loaded, nav_count,
                   page_sleeps, calls>>

\* Lines 32-34: without browser or context close() and return 0; what close()
\* raises leaves the run.
CloseNoSession ==
    /\ pc = "close_no_session"
    /\ \E r \in CallOutcomes \ {"none"} :
        \/ /\ r = "ok"
           /\ close
           /\ stop' = "no_session"
           /\ ret' = Num(0)
        \/ /\ r \in {"raise", "cancel"}
           /\ stop' = "no_session"
           /\ ret' = (IF r = "cancel" THEN Cancel ELSE Raise)
           /\ UNCHANGED <<session, listing_open, book_pages_open>>
    /\ pc' = "done"
    /\ UNCHANGED <<parse_op, parse_in, parse_out, extracted, element, got_text, tally, raw_links, site,
                   hash_seed, store, max_books, scraped_count, skipped_count,
                   page_num, book_links, idx, item_page, book_data, loaded,
                   nav_count, page_sleeps, calls>>

\* Lines 40-43: the listing page handle.
NewListingPage ==
    /\ pc = "new_page"
    /\ \E r \in CallOutcomes :
        \/ /\ r = "ok"
           /\ listing_open' = TRUE
           /\ pc' = "while"
           /\ UNCHANGED stop
        \/ /\ r = "none"
           /\ pc' = "close_no_page"
           /\ UNCHANGED <<listing_open, stop>>
        \/ /\ r = "raise"
           /\ Caught
           /\ UNCHANGED listing_open
        \/ /\ r = "cancel"
           /\ Cancelled
           /\ UNCHANGED listing_open
    /\ UNCHANGED <<parse_op, parse_in, parse_out, extracted, element, got_text, tally, raw_links, site,
                   hash_seed, store, max_books, session, book_pages_open,
                   scraped_count, skipped_count, page_num, book_links, idx,
                   item_page, book_data, ret, loaded, nav_count, page_sleeps,
                   calls>>

\* Lines 44-46: without a page handle close() and return 0; the return is
\* inside the try, so the finally clause follows.
CloseNoPage ==
    /\ pc = "close_no_page"
    /\ \E r \in CallOutcomes \ {"none"} :
        \/ /\ r = "ok"
           /\ close
           /\ stop' = "no_page"
           /\ pc' = "finally"
        \/ /\ r = "raise"
           /\ Caught
           /\ UNCHANGED <<session, listing_open, book_pages_open>>
        \/ /\ r = "cancel"
           /\ Cancelled
           /\ UNCHANGED <<session, listing_open, book_pages_open>>
    /\ UNCHANGED <<parse_op, parse_in, parse_out, extracted, element, got_text, tally, raw_links, site,
                   hash_seed, store, max_books, scraped_count, skipped_count,
                   page_num, book_links, idx, item_page, book_data, ret,
                   loaded, nav_count, page_sleeps, calls>>

\* Lines 50-66: the loop test, then the listing page of page_num is requested.
LoadListing ==
    /\ pc = "while"
    /\ \/ /\ ~UnderBudget(scraped_count, max_books)
          /\ stop' = "budget"
          /\ pc' = "close_page"
          /\ UNCHANGED loaded
       \/ /\ UnderBudget(scraped_count, max_books)
          /\ \E r \in GotoOutcomes :
              /\ loaded' = Log(loaded, Load(page_num, r))
              /\ \/ /\ r = "raise"
                    /\ Caught
                 \/ /\ r = "cancel"
                    /\ Cancelled
                 \/ /\ r \notin {"raise", "cancel"}
                    /\ ListingFailed(r)
                    /\ stop' = "load_failed"
                    /\ pc' = "close_page"
                 \/ /\ r \notin {"raise", "cancel"}
                    /\ ~ListingFailed(r)
                    /\ pc' = "wait_listing"
                    /\ UNCHANGED stop
    /\ UNCHANGED <<parse_op, parse_in, parse_out, extracted, element, got_text, tally, raw_links, site,
                   hash_seed, store, max_books, session, listing_open,
                   book_pages_open, scraped_count, skipped_count, page_num,
                   book_links, idx, item_page, book_data, ret, nav_count,
                   page_sleeps, calls>>

\* Lines 68-70: wait_for_load_state on the listing page.
WaitListing ==
    /\ pc = "wait_listing"
    /\ \E r \in CallOutcomes \ {"none"} :
        \/ /\ r = "ok"
           /\ pc' = "extract_links"
           /\ UNCHANGED stop
        \/ /\ r = "raise"
           /\ Caught
        \/ /\ r = "cancel"
           /\ Cancelled
    /\ UNCHANGED <<parse_op, parse_in, parse_out, extracted, element, got_text, tally, raw_links, site,
                   hash_seed, store, max_books, session, listing_open,
                   book_pages_open, scraped_count, skipped_count, page_num,
                   book_links, idx, item_page, book_data, ret, loaded,
                   nav_count, page_sleeps, calls>>

\* ExtractLinks with an exception of the evaluation let through to the caller.
ExtractLinksUnguarded ==
    /\ pc = "extract_links"
    /\ \E r \in LinkOutcomes(page_num) :
        LET links == _extract_book_links(r)
        IN  /\ raw_links' = r
            /\ \/ /\ r = Cancel
                  /\ Cancelled
                  /\ UNCHANGED <<book_links, idx>>
               \/ /\ r = Raise
                  /\ Caught
                  /\ UNCHANGED <<book_links, idx>>
               \/ /\ r \notin {Raise, Cancel}
                  /\ book_links' = links
                  /\ idx' = 0
                  /\ \/ /\ NoLinks(links)
                        /\ stop' = "empty"
                        /\ pc' = "close_page"
                     \/ /\ ~NoLinks(links)
                        /\ pc' = "for"
                        /\ UNCHANGED stop
    /\ UNCHANGED <<parse_op, parse_in, parse_out, extracted, element, got_text, tally, site, hash_seed,
                   store, max_books, session, listing_open, book_pages_open,
                   scraped_count, skipped_count, page_num, item_page,
                   book_data, ret, loaded, nav_count, page_sleeps, calls>>

\* Lines 72-77: link discovery; no links ends the loop.  A cancellation of the
\* evaluation passes the handler inside _extract_book_links.
ExtractLinks ==
    /\ pc = "extract_links"
    /\ \E r \in LinkOutcomes(page_num) :
        LET links == _extract_book_links(r)
        IN  /\ raw_links' = r
            /\ \/ /\ r = Cancel
                  /\ Cancelled
                  /\ UNCHANGED <<book_links, idx>>
               \/ /\ r # Cancel
                  /\ book_links' = links
                  /\ idx' = 0
                  /\ \/ /\ NoLinks(links)
                        /\ stop' = "empty"
                        /\ pc' = "close_page"
                     \/ /\ ~NoLinks(links)
                        /\ pc' = "for"
                        /\ UNCHANGED stop
    /\ UNCHANGED <<parse_op, parse_in, parse_out, extracted, element, got_text, tally, site, hash_seed,
                   store, max_books, session, listing_open, book_pages_open,
                   scraped_count, skipped_count, page_num, item_page,
                   book_data, ret, loaded, nav_count, page_sleeps, calls>>

\* Lines 79-87: the next link, the budget test, the dedup gate.
NextLink ==
    /\ pc = "for"
    /\ \/ /\ idx = Len(book_links)
          /\ calls' = <<>>
          /\ pc' = "paginate"
          /\ UNCHANGED <<idx, skipped_count, stop, tally>>
       \/ /\ idx < Len(book_links)
          /\ idx' = idx + 1
          /\ LET sku == UrlSku[book_links[idx + 1]]
             IN  \/ /\ BudgetReached(scraped_count, max_books)
                    /\ calls' = <<>>
                    /\ pc' = "paginate"
                    /\ UNCHANGED <<skipped_count, stop, tally>>
                 \/ /\ ~BudgetReached(scraped_count, max_books)
                    /\ ~Truthy(sku)
                    /\ calls' = <<>>
                    /\ tally' = Count(tally, "links")
                    /\ pc' = "throttle"
                    /\ UNCHANGED <<skipped_count, stop>>
                 \/ /\ ~BudgetReached(scraped_count, max_books)
                    /\ Truthy(sku)
                    /\ \E r \in CallOutcomes \ {"none"} :
                        \/ /\ r = "raise"
                           /\ calls' = <<Call("get_book_by_sku", sku, Raise)>>
                           /\ tally' = Count(tally, "links")
                           /\ Caught
                           /\ UNCHANGED skipped_count
                        \/ /\ r = "cancel"
                           /\ calls' = <<Call("get_book_by_sku", sku, Cancel)>>
                           /\ tally' = Count(tally, "links")
                           /\ Cancelled
                           /\ UNCHANGED skipped_count
                        \/ /\ r = "ok"
                           /\ calls' = <<Call("get_book_by_sku", sku, get_book_by_sku(sku))>>
                           /\ tally' = Looked(Count(tally, "links"), get_book_by_sku(sku))
                           /\ AlreadyStored(sku)
                           /\ skipped_count' = Inc(skipped_count)
                           /\ pc' = "for"
                           /\ UNCHANGED stop
                        \/ /\ r = "ok"
                           /\ calls' = <<Call("get_book_by_sku", sku, get_book_by_sku(sku))>>
                           /\ tally' = Looked(Count(tally, "links"), get_book_by_sku(sku))
                           /\ ~AlreadyStored(sku)
                           /\ pc' = "throttle"
                           /\ UNCHANGED <<skipped_count, stop>>
    /\ UNCHANGED <<parse_op, parse_in, parse_out, extracted, element, got_text, raw_links, site, hash_seed, store, max_books, session, listing_open,
                   book_pages_open, scraped_count, page_num, book_links,
                   item_page, book_data, ret, loaded, nav_count, page_sleeps>>

\* Throttle without the wait: the item is taken up at once.
ThrottleSkipped ==
    /\ pc = "throttle"
    /\ pc' = "book_new_page"
    /\ UNCHANGED <<parse_op, parse_in, parse_out, extracted, element, got_text, tally, raw_links, site, hash_seed, store, max_books, session, listing_open,
                   book_pages_open, scraped_count, skipped_count, page_num,
                   book_links, idx, item_page, book_data, stop, ret, loaded,
                   nav_count, page_sleeps, calls>>

\* Lines 89-91: the item delay.  It stands outside the handler around one item:
\* an exception of the wait reaches the outer handler.
Throttle ==
    /\ pc = "throttle"
    /\ \E r \in CallOutcomes \ {"none"} :
        \/ /\ r = "ok"
           /\ calls' = Append(calls, Call("sleep", None, None))
           /\ pc' = "book_new_page"
           /\ UNCHANGED stop
        \/ /\ r = "raise"
           /\ calls' = Append(calls, Call("sleep", None, Raise))
           /\ Caught
        \/ /\ r = "cancel"
           /\ calls' = Append(calls, Call("sleep", None, Cancel))
           /\ Cancelled
    /\ UNCHANGED <<parse_op, parse_in, parse_out, extracted, element, got_text, tally, raw_links, site,
                   hash_seed, store, max_books, session, listing_open,
                   book_pages_open, scraped_count, skipped_count, page_num,
                   book_links, idx, item_page, book_data, ret, loaded,
                   nav_count, page_sleeps>>

\* Lines 130-133: scrape_book's page handle.
BookNewPage ==
    /\ pc = "book_new_page"
    /\ \E r \in CallOutcomes :
        \/ /\ r = "ok"
           /\ book_pages_open' = book_pages_open + 1
           /\ pc' = "book_goto"
           /\ UNCHANGED stop
        \/ /\ r = "none"
           /\ pc' = "hand_off"
           /\ UNCHANGED <<book_pages_open, stop>>
        \/ /\ r = "raise"
           /\ ItemErrorCaught
           /\ UNCHANGED book_pages_open
        \/ /\ r = "cancel"
           /\ Cancelled
           /\ UNCHANGED book_pages_open
    /\ item_page' = None
    /\ book_data' = None
    /\ UNCHANGED <<parse_op, parse_in, parse_out, extracted, element, got_text, tally, raw_links, site,
                   hash_seed, store, max_books, session, listing_open,
                   scraped_count, skipped_count, page_num, book_links, idx,
                   ret, loaded, nav_count, page_sleeps, calls>>

\* BookGoto counting a failed load as a skip.
BookGotoCountingSkips ==
    /\ pc = "book_goto"
    /\ nav_count' = Inc(nav_count)
    /\ \E r \in GotoOutcomes :
        /\ calls' = Append(calls, Call("goto", Str(book_links[idx]), Str(<<r>>)))
        /\ \/ /\ r = "raise"
              /\ ItemErrorCaught
              /\ UNCHANGED skipped_count
           \/ /\ r = "cancel"
              /\ Cancelled
              /\ UNCHANGED skipped_count
           \/ /\ r \notin {"raise", "cancel"}
              /\ BookLoadFailed(r)
              /\ skipped_count' = Inc(skipped_count)
              /\ pc' = "book_close_outside"
              /\ UNCHANGED stop
           \/ /\ r \notin {"raise", "cancel"}
              /\ ~BookLoadFailed(r)
              /\ pc' = "book_wait"
              /\ UNCHANGED <<skipped_count, stop>>
    /\ UNCHANGED <<parse_op, parse_in, parse_out, extracted, element, got_text, tally, raw_links, site,
                   hash_seed, store, max_books, session, listing_open,
                   book_pages_open, scraped_count, page_num, book_links, idx,
                   item_page, book_data, ret, loaded, page_sleeps>>

\* Lines 135-137: navigation to the item page.  It stands outside the try of
\* scrape_book: what it raises leaves scrape_book with the page handle open.
BookGoto ==
    /\ pc = "book_goto"
    /\ nav_count' = Inc(nav_count)
    /\ \E r \in GotoOutcomes :
        /\ calls' = Append(calls, Call("goto", Str(book_links[idx]), Str(<<r>>)))
        /\ \/ /\ r = "raise"
              /\ ItemErrorCaught
           \/ /\ r = "cancel"
              /\ Cancelled
           \/ /\ r \notin {"raise", "cancel"}
              /\ BookLoadFailed(r)
              /\ pc' = "book_close_outside"
              /\ UNCHANGED stop
           \/ /\ r \notin {"raise", "cancel"}
              /\ ~BookLoadFailed(r)
              /\ pc' = "book_wait"
              /\ UNCHANGED stop
    /\ UNCHANGED <<parse_op, parse_in, parse_out, extracted, element, got_text, tally, raw_links, site,
                   hash_seed, store, max_books, session, listing_open,
                   book_pages_open, scraped_count, skipped_count, page_num,
                   book_links, idx, item_page, book_data, ret, loaded,
                   page_sleeps>>

\* The frame of scrape_book is left: its locals are gone.
Unwound ==
    /\ extracted' = NoLocals
    /\ element' = Pending
    /\ got_text' = Pending

\* Line 142: wait_for_load_state on the item page; an exception is taken by the
\* handler of line 185.  Lines 143 and 222-224 follow without another await
\* when the URL carries an identifier.
BookWaitLoad ==
    /\ pc = "book_wait"
    /\ \E r \in CallOutcomes \ {"none"} :
        \/ /\ r = "ok"
           /\ \E page \in PageOutcomes(book_links[idx]) : item_page' = Dict(page)
           /\ IF Truthy(UrlSku[book_links[idx]])
              THEN /\ extracted' = [extracted EXCEPT !.sku = UrlSku[book_links[idx]]]
                   /\ pc' = "book_title"
              ELSE /\ pc' = "book_sku"
                   /\ UNCHANGED extracted
           /\ UNCHANGED stop
        \/ /\ r = "raise"
           /\ pc' = "book_close_outside"
           /\ UNCHANGED <<stop, item_page, extracted>>
        \/ /\ r = "cancel"
           /\ Cancelled
           /\ UNCHANGED <<item_page, extracted>>
    /\ UNCHANGED <<parse_op, parse_in, parse_out, tally, raw_links, site,
                   hash_seed, store, max_books, session, listing_open,
                   book_pages_open, scraped_count, skipped_count, page_num,
                   book_links, idx, ret, loaded, nav_count, page_sleeps,
                   calls, book_data, element, got_text>>

\* Lines 226-252: the identifier query of a page whose URL carries no
\* identifier; an exception of the query is taken at line 247.
ExtractSku ==
    /\ pc = "book_sku"
    /\ \E r \in CallOutcomes \ {"none"} :
        \/ /\ r \in {"ok", "raise"}
           /\ extracted' =
                [extracted EXCEPT !.sku =
                    _extract_sku([sku |-> IF r = "ok" THEN item_page.v.sku ELSE Raise],
                                 book_links[idx], hash_seed)]
           /\ pc' = "book_title"
           /\ UNCHANGED <<stop, element, got_text>>
        \/ /\ r = "cancel"
           /\ Cancelled
           /\ Unwound
    /\ UNCHANGED <<parse_op, parse_in, parse_out, tally, raw_links, site,
                   hash_seed, store, max_books, session, listing_open,
                   book_pages_open, scraped_count, skipped_count, page_num,
                   book_links, idx, ret, loaded, nav_count, page_sleeps,
                   calls, item_page, book_data>>

\* The selectors of lines 144, 150, 151, 154 and 156, by the place of the call.
Selector ==
    [book_title |-> "title", book_author |-> "author", book_price |-> "price",
     book_condition |-> "condition", book_description |-> "description"]

\* Lines 144-156: what scrape_book does with the text _get_text returns.
\* Without a title the page is closed at line 147 and None returned.
GotText(text) ==
    /\ got_text' = text
    /\ CASE pc = "book_title" ->
               IF NoTitle(text)
               THEN /\ extracted' = NoLocals
                    /\ pc' = "book_close"
               ELSE /\ extracted' = [extracted EXCEPT !.title = text]
                    /\ pc' = "book_author"
         [] pc = "book_author" ->
               /\ extracted' = [extracted EXCEPT !.author = AuthorOrUnknown(text)]
               /\ pc' = "book_price"
         [] pc = "book_price" ->
               /\ extracted' = [extracted EXCEPT !.wob_price = PagePrice[text]]
               /\ pc' = "book_isbn"
         [] pc = "book_condition" ->
               /\ extracted' = [extracted EXCEPT !.condition = text]
               /\ pc' = "book_binding"
         [] pc = "book_description" ->
               /\ extracted' = [extracted EXCEPT !.description = text]
               /\ pc' = "book_image"

\* Line 342 of _get_text: the element of the selector.  Without an element,
\* and after an exception of the query (line 347), the text is None.
QuerySelector ==
    /\ pc \in DOMAIN Selector
    /\ element = Pending
    /\ \E r \in CallOutcomes \ {"none"} :
        \/ /\ r = "ok"
           /\ ~IsNone(item_page.v[Selector[pc]])
           /\ element' = item_page.v[Selector[pc]]
           /\ UNCHANGED <<pc, extracted, stop, got_text>>
        \/ /\ \/ r = "ok" /\ IsNone(item_page.v[Selector[pc]])
              \/ r = "raise"
           /\ GotText(None)
           /\ UNCHANGED <<element, stop>>
        \/ /\ r = "cancel"
           /\ Cancelled
           /\ Unwound
    /\ UNCHANGED <<parse_op, parse_in, parse_out, tally, raw_links, site,
                   hash_seed, store, max_books, session, listing_open,
                   book_pages_open, scraped_count, skipped_count, page_num,
                   book_links, idx, ret, loaded, nav_count, page_sleeps,
                   calls, item_page, book_data>>

\* Lines 344-345 of _get_text: the text content of the element, stripped; None
\* after an exception (line 347).
TextContent ==
    /\ pc \in DOMAIN Selector
    /\ element # Pending
    /\ \E r \in CallOutcomes \ {"none"} :
        \/ /\ r \in {"ok", "raise"}
           /\ GotText(IF r = "ok" THEN _get_text(element) ELSE None)
           /\ element' = Pending
           /\ UNCHANGED stop
        \/ /\ r = "cancel"
           /\ Cancelled
           /\ Unwound
    /\ UNCHANGED <<parse_op, parse_in, parse_out, tally, raw_links, site,
                   hash_seed, store, max_books, session, listing_open,
                   book_pages_open, scraped_count, skipped_count, page_num,
                   book_links, idx, ret, loaded, nav_count, page_sleeps,
                   calls, item_page, book_data>>

\* Line 153: _extract_isbn; an exception of the query is taken at line 281.
ExtractIsbn ==
    /\ pc = "book_isbn"
    /\ \E r \in CallOutcomes \ {"none"} :
        \/ /\ r \in {"ok", "raise"}
           /\ extracted' =
                [extracted EXCEPT !.isbn =
                    _extract_isbn(IF r = "ok" THEN item_page.v.isbn ELSE Raise)]
           /\ pc' = "book_condition"
           /\ UNCHANGED <<stop, element, got_text>>
        \/ /\ r = "cancel"
           /\ Cancelled
           /\ Unwound
    /\ UNCHANGED <<parse_op, parse_in, parse_out, tally, raw_links, site,
                   hash_seed, store, max_books, session, listing_open,
                   book_pages_open, scraped_count, skipped_count, page_num,
                   book_links, idx, ret, loaded, nav_count, page_sleeps,
                   calls, item_page, book_data>>

\* Line 155: _extract_binding; an exception of the query is taken at line 309.
ExtractBinding ==
    /\ pc = "book_binding"
    /\ \E r \in CallOutcomes \ {"none"} :
        \/ /\ r \in {"ok", "raise"}
           /\ extracted' =
                [extracted EXCEPT !.binding =
                    _extract_binding(IF r = "ok" THEN item_page.v.binding ELSE Raise)]
           /\ pc' = "book_description"
           /\ UNCHANGED <<stop, element, got_text>>
        \/ /\ r = "cancel"
           /\ Cancelled
           /\ Unwound
    /\ UNCHANGED <<parse_op, parse_in, parse_out, tally, raw_links, site,
                   hash_seed, store, max_books, session, listing_open,
                   book_pages_open, scraped_count, skipped_count, page_num,
                   book_links, idx, ret, loaded, nav_count, page_sleeps,
                   calls, item_page, book_data>>

\* Lines 158-163: the image query, which no helper guards: its exception is
\* taken by the handler of line 185, which closes the page at line 187.
EvaluateImage ==
    /\ pc = "book_image"
    /\ \E r \in CallOutcomes \ {"none"} :
        \/ /\ r = "ok"
           /\ extracted' = [extracted EXCEPT !.image_url = item_page.v.image]
           /\ pc' = "book_publication"
           /\ UNCHANGED <<stop, element, got_text>>
        \/ /\ r = "raise"
           /\ Unwound
           /\ pc' = "book_close_outside"
           /\ UNCHANGED stop
        \/ /\ r = "cancel"
           /\ Cancelled
           /\ Unwound
    /\ UNCHANGED <<parse_op, parse_in, parse_out, tally, raw_links, site,
                   hash_seed, store, max_books, session, listing_open,
                   book_pages_open, scraped_count, skipped_count, page_num,
                   book_links, idx, ret, loaded, nav_count, page_sleeps,
                   calls, item_page, book_data>>

\* Lines 165-180: _extract_publication_details, whose exception is taken at
\* line 335, then the record; its page is closed at line 182.
ExtractPublication ==
    /\ pc = "book_publication"
    /\ \E r \in CallOutcomes \ {"none"} :
        \/ /\ r \in {"ok", "raise"}
           /\ LET pub == _extract_publication_details(
                            IF r = "ok" THEN item_page.v.publication ELSE Raise)
              IN  book_data' = Dict([extracted EXCEPT !.publisher = pub[1],
                                                      !.publication_year = pub[2],
                                                      !.wob_url = Str(book_links[idx])])
           /\ Unwound
           /\ pc' = "book_close"
           /\ UNCHANGED stop
        \/ /\ r = "cancel"
           /\ Cancelled
           /\ Unwound
           /\ UNCHANGED book_data
    /\ UNCHANGED <<parse_op, parse_in, parse_out, tally, raw_links, site,
                   hash_seed, store, max_books, session, listing_open,
                   book_pages_open, scraped_count, skipped_count, page_num,
                   book_links, idx, ret, loaded, nav_count, page_sleeps,
                   calls, item_page>>

\* Lines 147 and 182: book_page.close() inside the try; when it raises, the
\* handler of line 185 closes again and scrape_book returns None.
BookClose ==
    /\ pc = "book_close"
    /\ \E r \in CallOutcomes \ {"none"} :
        \/ /\ r = "ok"
           /\ book_pages_open' = book_pages_open - 1
           /\ pc' = "hand_off"
           /\ UNCHANGED <<book_data, stop>>
        \/ /\ r = "raise"
           /\ book_data' = None
           /\ pc' = "book_close_outside"
           /\ UNCHANGED <<book_pages_open, stop>>
        \/ /\ r = "cancel"
           /\ Cancelled
           /\ UNCHANGED <<book_pages_open, book_data>>
    /\ UNCHANGED <<parse_op, parse_in, parse_out, extracted, element, got_text, tally, raw_links, site,
                   hash_seed, store, max_books, session, listing_open,
                   scraped_count, skipped_count, page_num, book_links, idx,
                   item_page, ret, loaded, nav_count, page_sleeps, calls>>

\* Lines 138 and 187: book_page.close() outside the try, before scrape_book
\* returns None; what it raises leaves scrape_book with the page handle open.
BookCloseOutside ==
    /\ pc = "book_close_outside"
    /\ \E r \in CallOutcomes \ {"none"} :
        \/ /\ r = "ok"
           /\ book_pages_open' = book_pages_open - 1
           /\ pc' = "hand_off"
           /\ UNCHANGED stop
        \/ /\ r = "raise"
           /\ ItemErrorCaught
           /\ UNCHANGED book_pages_open
        \/ /\ r = "cancel"
           /\ Cancelled
           /\ UNCHANGED book_pages_open
    /\ UNCHANGED <<parse_op, parse_in, parse_out, extracted, element, got_text, tally, raw_links, site,
                   hash_seed, store, max_books, session, listing_open,
                   scraped_count, skipped_count, page_num, book_links, idx,
                   item_page, book_data, ret, loaded, nav_count, page_sleeps,
                   calls>>

\* Lines 95-105: a record with a title is handed to add_book.
HandOff ==
    /\ pc = "hand_off"
    /\ \/ /\ ~HasTitle(book_data)
          /\ pc' = "for"
          /\ UNCHANGED <<calls, scraped_count, store, stop, tally>>
       \/ /\ HasTitle(book_data)
          /\ \E r \in AddBookOutcomes(book_data) :
              /\ calls' = Append(calls, Call("add_book", WithCategory(book_data), Str(<<r>>)))
              /\ store' = IF r = "id" THEN store \cup {book_data.v.sku.v} ELSE store
              /\ tally' = IF r = "id" THEN Count(tally, "ids") ELSE tally
              /\ \/ /\ r = "raise"
                    /\ ItemErrorCaught
                    /\ UNCHANGED scraped_count
                 \/ /\ r # "raise"
                    /\ scraped_count' =
                         IF Accepted(r) THEN scraped_count + 1 ELSE scraped_count
                    /\ pc' = "for"
                    /\ UNCHANGED stop
    /\ item_page' = None
    /\ book_data' = None
    /\ UNCHANGED <<parse_op, parse_in, parse_out, extracted, element, got_text, raw_links, site, hash_seed, max_books, session, listing_open,
                   book_pages_open, skipped_count, page_num, book_links, idx,
                   ret, loaded, nav_count, page_sleeps>>

\* Lines 107-113: the next page after the page delay, or the end of the loop.
Paginate ==
    /\ pc = "paginate"
    /\ \/ /\ UnderBudget(scraped_count, max_books)
          /\ page_num' = Inc(page_num)
          /\ \E r \in CallOutcomes \ {"none"} :
              \/ /\ r = "ok"
                 /\ page_sleeps' = Inc(page_sleeps)
                 /\ pc' = "while"
                 /\ UNCHANGED stop
              \/ /\ r = "raise"
                 /\ Caught
                 /\ UNCHANGED page_sleeps
              \/ /\ r = "cancel"
                 /\ Cancelled
                 /\ UNCHANGED page_sleeps
       \/ /\ ~UnderBudget(scraped_count, max_books)
          /\ stop' = "budget"
          /\ pc' = "close_page"
          /\ UNCHANGED <<page_num, page_sleeps>>
    /\ UNCHANGED <<parse_op, parse_in, parse_out, extracted, element, got_text, tally, raw_links, site,
                   hash_seed, store, max_books, session, listing_open,
                   book_pages_open, scraped_count, skipped_count, book_links,
                   idx, item_page, book_data, ret, loaded, nav_count, calls>>

\* Line 115: the listing page is closed after the loop; an exception of
\* page.close() is taken by the handler of line 117, which logs it.
ClosePage ==
    /\ pc = "close_page"
    /\ \E r \in CallOutcomes \ {"none"} :
        \/ /\ r = "ok"
           /\ listing_open' = FALSE
           /\ pc' = "finally"
           /\ UNCHANGED stop
        \/ /\ r = "raise"
           /\ pc' = "finally"
           /\ UNCHANGED <<listing_open, stop>>
        \/ /\ r = "cancel"
           /\ Cancelled
           /\ UNCHANGED listing_open
    /\ UNCHANGED <<parse_op, parse_in, parse_out, extracted, element, got_text, tally, raw_links, site,
                   hash_seed, store, max_books, session, book_pages_open,
                   scraped_count, skipped_count, page_num, book_links, idx,
                   item_page, book_data, ret, loaded, nav_count, page_sleeps,
                   calls>>

\* Lines 120-124: the session is closed, then the count is returned or the
\* cancellation goes on to the caller; what close() raises leaves the run.
Finally ==
    /\ pc = "finally"
    /\ \E r \in CallOutcomes \ {"none"} :
        \/ /\ r = "ok"
           /\ close
           /\ ret' = ReturnValue
        \/ /\ r \in {"raise", "cancel"}
           /\ ret' = (IF r = "cancel" THEN Cancel ELSE Raise)
           /\ UNCHANGED <<session, listing_open, book_pages_open>>
    /\ pc' = "done"
    /\ UNCHANGED <<parse_op, parse_in, parse_out, extracted, element, got_text, tally, raw_links, site,
                   hash_seed, store, max_books, scraped_count, skipped_count,
                   page_num, book_links, idx, item_page, book_data, stop,
                   loaded, nav_count, page_sleeps, calls>>

Next ==
    \/ Initialize
    \/ CloseNoSession
    \/ NewListingPage
    \/ CloseNoPage
    \/ LoadListing
    \/ WaitListing
    \/ ExtractLinks
    \/ NextLink
    \/ Throttle
    \/ BookNewPage
    \/ BookGoto
    \/ BookWaitLoad
    \/ ExtractSku
    \/ QuerySelector
    \/ TextContent
    \/ ExtractIsbn
    \/ ExtractBinding
    \/ EvaluateImage
    \/ ExtractPublication
    \/ BookClose
    \/ BookCloseOutside
    \/ HandOff
    \/ Paginate
    \/ ClosePage
    \/ Finally

Spec == Init /\ [][Next]_vars

\* The run over the deep catalogue, the store holding what earlier runs
\* inserted.
DeepSpec ==
    /\ site = "deep"
    /\ hash_seed = HashTableOne
    /\ store = InitialSkus
    /\ max_books \in 1..MaxBooks
    /\ pc = "start"
    /\ session = "none"
    /\ listing_open = FALSE
    /\ book_pages_open = 0
    /\ scraped_count = 0
    /\ skipped_count = 0
    /\ page_num = 1
    /\ tally = [links |-> 0, hits |-> 0, ids |-> 0]
    /\ raw_links = None
    /\ book_links = <<>>
    /\ idx = 0
    /\ item_page = None
    /\ book_data = None
    /\ stop = "none"
    /\ ret = None
    /\ loaded = <<>>
    /\ nav_count = 0
    /\ page_sleeps = 0
    /\ calls = <<>>
    /\ extracted = NoLocals
    /\ got_text = Pending
    /\ element = Pending
    /\ parse_op = "none"
    /\ parse_in = None
    /\ parse_out = Pending
    /\ [][Next]_vars

\* ------------------------------------------------- the field parsers alone

\* Longest text put before an amount, and after it.
MaxAffix == 2
MaxSuffix == 1
AffixChars == {"9", ".", "a", "€"}
Affixes == UNION {[1..n -> AffixChars] : n \in 0..MaxAffix}
Suffixes == UNION {[1..n -> AffixChars] : n \in 0..MaxSuffix}

Amount1234 == <<"1", "2", ".", "3", "4">>
\* 15 in the digits of N'Ko.
NkoAmount15 == <<"߁", "߅">>
PriceCores == {<<"€">> \o Amount1234, Amount1234, <<"1", "5">>, NkoAmount15, <<>>}
\* What _get_text hands to _extract_price: a text, or None.
PriceTexts == {Str(p \o c \o q) : p \in Affixes, c \in PriceCores, q \in Suffixes} \cup {None}

Isbn13 == <<"9", "7", "8", "1", "2", "3", "4", "5", "6", "7", "8", "9", "0">>
IsbnMarker == <<"I", "S", "B", "N", ":", " ">> \o Isbn13
Isbn10x == <<"1", "2", "3", "4", "5", "6", "7", "8", "9", "x">>
IsbnPrefixes ==
    {<<>>, <<"a", " ">>, <<"I", "S", "B", "N", " ">>,
     <<"i", "s", "b", "n", "\n">> \o Isbn10x \o <<" ">>}
IsbnSuffixes == {<<>>, <<"1">>, <<" ", "X">>}
\* Texts of the details container and of the page.
IsbnTexts ==
    {p \o c \o q : p \in IsbnPrefixes, c \in {IsbnMarker, <<"n", "o">>}, q \in IsbnSuffixes}
\* The isbn field of the structured data: none, texts, a number, an empty list
\* and an empty object.
JsonIsbns == {None, Str(<<>>), Str(<<"n", "/", "a">>),
              Str(<<"9", "7", "8", "-", "1", " ", "x", "X">>),
              Num(978), List(<<>>), Dict(<<>>)}
\* What the evaluation in _extract_isbn can come to: the three sources of a
\* page, or an exception.
IsbnPages ==
    {Dict([details |-> d, json |-> j, body |-> Str(b)]) :
        d \in {Str(t) : t \in IsbnTexts} \cup {None}, j \in JsonIsbns, b \in IsbnTexts}
    \cup {Raise}

\* random.uniform(a, b): a + (b - a) * random() with random() in [0, 1), any
\* number between the two limits, in either order, the first limit included
\* and, by rounding, the second one as well.  The limits are whole seconds; a
\* delay is held in whole milliseconds.
Seconds(n) == n * 1000
uniform(a, b) ==
    IF a <= b THEN Seconds(a)..Seconds(b) ELSE Seconds(b)..Seconds(a)

\* Line 89: the range of the item delay.
delay_range(SCRAPE_DELAY_MIN, SCRAPE_DELAY_MAX) ==
    uniform(SCRAPE_DELAY_MIN, SCRAPE_DELAY_MAX)

\* page_delay_range with the configured minimum as its lower end.
page_delay_range_from_min(SCRAPE_DELAY_MIN, SCRAPE_DELAY_MAX) ==
    uniform(SCRAPE_DELAY_MIN, SCRAPE_DELAY_MAX + 3)

\* Line 109: the range of the page delay.
page_delay_range(SCRAPE_DELAY_MIN, SCRAPE_DELAY_MAX) ==
    uniform(SCRAPE_DELAY_MAX, SCRAPE_DELAY_MAX + 3)

\* config.SCRAPE_DELAY_MIN and config.SCRAPE_DELAY_MAX: every pair of values up
\* to MaxDelay, in either order.
MaxDelay == 3
DelayConfigs ==
    {Dict([SCRAPE_DELAY_MIN |-> a, SCRAPE_DELAY_MAX |-> b]) : a, b \in 0..MaxDelay}

\* Item URLs and what the identifier query of the item page comes to: null, an
\* empty text, an identifier, a number or an object of the structured data, or
\* an exception.
SkuUrls == HashedUrls
PageSkus == {None, Str(<<>>), Str(<<"S", "1">>), Num(12345), Num(0), Dict([a |-> 1]), Raise}
SkuRequests == {Dict([url |-> u, page_sku |-> p]) : u \in SkuUrls, p \in PageSkus}

\* Values of hash(url): the values within HashSpan of zero, of the modulus and
\* of its negative, two values HashFar from zero, the least and the greatest
\* value of 64 bits, and the values of the two tables.
HashSpan == 2
HashFar == 1073741823
Int64Min == Int64(-1, 92233, 7203685, 4775808)
Int64Max == Int64(1, 92233, 7203685, 4775807)
HashValues ==
    {Widen(h) : h \in UNION {(c - HashSpan)..(c + HashSpan) :
                                c \in {0, FallbackModulus, -FallbackModulus}}
                      \cup {HashFar, -HashFar}}
    \cup {Int64Min, Int64Max}
    \cup {seed[url] : seed \in {HashTableOne, HashTableTwo}, url \in HashedUrls}

\* Target URLs without and with a query string, and the page indexes up to
\* MaxPageNum.
MaxPageNum == 11
TargetUrls == {WOB_TARGET_URL, WOB_TARGET_URL \o <<"?", "s", "=", "1">>, <<"w", "?">>}
PageRequests ==
    {Dict([target_url |-> t, page_num |-> n]) : t \in TargetUrls, n \in 1..MaxPageNum}

\* Text contents of the details container: none, empty, one term in several
\* spellings, two terms in either order, a term inside a longer word.
DetailTexts ==
    {<<>>,
     <<"F", "o", "r", "m", "a", "t", ":", " ", "P", "a", "p", "e", "r", "b", "a", "c", "k">>,
     <<"H", "A", "R", "D", "B", "A", "C", "K">>,
     <<"H", "a", "r", "d", " ", "C", "o", "v", "e", "r">>,
     <<"P", "a", "p", "e", "r", "b", "a", "c", "k", " ", "o", "r", " ", "h", "a", "r", "d", "c", "o", "v", "e", "r">>,
     <<"p", "a", "p", "e", "r", "b", "a", "c", "k", "s">>,
     <<"A", "u", "d", "i", "o", " ", "C", "D">>,
     <<"a", "u", "d", "i", "o", "b", "o", "o", "k", ",", " ", "n", "o", "t", " ", "h", "a", "r", "d", "b", "a", "c", "k">>,
     <<"B", "o", "o", "k", "_", "p", "a", "p", "e", "r", "b", "a", "c", "k">>}
BindingPages == {None, Raise} \cup {Str(text) : text \in DetailTexts}

ParserInit ==
    /\ site = "live"
    /\ hash_seed \in HashSeeds
    /\ store = {}
    /\ max_books = 0
    /\ pc = "start"
    /\ session = "none"
    /\ listing_open = FALSE
    /\ book_pages_open = 0
    /\ scraped_count = 0
    /\ skipped_count = 0
    /\ page_num = 1
    /\ tally = [links |-> 0, hits |-> 0, ids |-> 0]
    /\ raw_links = None
    /\ book_links = <<>>
    /\ idx = 0
    /\ item_page = None
    /\ book_data = None
    /\ stop = "none"
    /\ ret = None
    /\ loaded = <<>>
    /\ nav_count = 0
    /\ page_sleeps = 0
    /\ calls = <<>>
    /\ extracted = NoLocals
    /\ got_text = Pending
    /\ element = Pending
    /\ \/ /\ parse_op = "price"
          /\ parse_in \in PriceTexts
       \/ /\ parse_op = "isbn"
          /\ parse_in \in IsbnPages
       \/ /\ parse_op = "url"
          /\ parse_in \in PageRequests
       \/ /\ parse_op \in {"delay", "page_delay"}
          /\ parse_in \in DelayConfigs
       \/ /\ parse_op = "sku"
          /\ parse_in \in SkuRequests
       \/ /\ parse_op = "fallback"
          /\ parse_in \in {Num(h) : h \in HashValues}
       \/ /\ parse_op = "binding"
          /\ parse_in \in BindingPages
    /\ parse_out = Pending

crawl_vars == <<site, hash_seed, store, max_books, pc, session, listing_open,
                book_pages_open, scraped_count, skipped_count, page_num, tally,
                raw_links,
                book_links, idx, item_page, book_data, stop, ret, loaded,
                nav_count, page_sleeps, calls, extracted, element, got_text>>

\* Line 152: price = self._extract_price(price_text).
ParsePrice ==
    /\ parse_op = "price"
    /\ parse_out = Pending
    /\ parse_out' = _extract_price(parse_in)
    /\ UNCHANGED <<parse_op, parse_in, crawl_vars>>

\* Line 153: isbn = await self._extract_isbn(book_page).
ParseIsbn ==
    /\ parse_op = "isbn"
    /\ parse_out = Pending
    /\ parse_out' = _extract_isbn(
            IF parse_in.t = "raise" THEN Raise
            ELSE IsbnEvaluate(parse_in.v.details, parse_in.v.json, parse_in.v.body))
    /\ UNCHANGED <<parse_op, parse_in, crawl_vars>>

\* Lines 51-56: the URL of one listing page.
BuildPageUrl ==
    /\ parse_op = "url"
    /\ parse_out = Pending
    /\ parse_out' = Str(current_page_url(parse_in.v.target_url, parse_in.v.page_num))
    /\ UNCHANGED <<parse_op, parse_in, crawl_vars>>

\* Line 89: the delay before one item.
DrawDelay ==
    /\ parse_op = "delay"
    /\ parse_out = Pending
    /\ \E delay \in delay_range(parse_in.v.SCRAPE_DELAY_MIN, parse_in.v.SCRAPE_DELAY_MAX) :
            parse_out' = Num(delay)
    /\ UNCHANGED <<parse_op, parse_in, crawl_vars>>

\* Line 109: the delay before the next listing page.
DrawPageDelay ==
    /\ parse_op = "page_delay"
    /\ parse_out = Pending
    /\ \E page_delay \in page_delay_range(parse_in.v.SCRAPE_DELAY_MIN, parse_in.v.SCRAPE_DELAY_MAX) :
            parse_out' = Num(page_delay)
    /\ UNCHANGED <<parse_op, parse_in, crawl_vars>>

\* Line 143: sku = await self._extract_sku(book_page, book_url).
ResolveSku ==
    /\ parse_op = "sku"
    /\ parse_out = Pending
    /\ parse_out' = _extract_sku([sku |-> parse_in.v.page_sku], parse_in.v.url, hash_seed)
    /\ UNCHANGED <<parse_op, parse_in, crawl_vars>>

\* Line 250: the fallback identifier of one hash value.
FormatFallback ==
    /\ parse_op = "fallback"
    /\ parse_out = Pending
    /\ parse_out' = FallbackOfHash(parse_in.v)
    /\ UNCHANGED <<parse_op, parse_in, crawl_vars>>

\* Line 155: binding = await self._extract_binding(book_page).
ParseBinding ==
    /\ parse_op = "binding"
    /\ parse_out = Pending
    /\ parse_out' = _extract_binding(
            IF parse_in.t = "raise" THEN Raise ELSE BindingEvaluate(parse_in))
    /\ UNCHANGED <<parse_op, parse_in, crawl_vars>>

ParserNext ==
    \/ ParseBinding
    \/ ParsePrice
    \/ ParseIsbn
    \/ BuildPageUrl
    \/ DrawDelay
    \/ DrawPageDelay
    \/ ResolveSku
    \/ FormatFallback

ParserSpec == ParserInit /\ [][ParserNext]_vars

\* ---------------------------------------------------- properties, C1 to C10

Returned == ret.t = "num"
LoopOver == pc \in {"close_page", "finally", "done"}
LastCall == calls[Len(calls)]
LoadedPages == [i \in 1..Len(loaded) |-> loaded[i].page]
Counting == [i \in 1..Len(loaded) |-> i]

\* C1: the accepted count stays within 0..max_books in every state, and the
\* value the run returns is the accepted count the loop ended with; the run
\* does return it once the loop has ended and close() has closed the session.
C1Theorem ==
    /\ scraped_count \in 0..max_books
    /\ Returned => pc = "done" /\ ret.v = scraped_count
    /\ (pc = "done" /\ stop \in {"budget", "empty", "load_failed", "exception"}
            /\ session = "closed")
         => Returned

C1Witness ==
    /\ pc = "done"
    /\ max_books = 2
    /\ Returned
    /\ ret.v = 2

\* C2: once the accepted count has reached max_books no step navigates to an
\* item page, looks an identifier up, waits, or loads a listing page; a run that
\* ends on the budget has accepted exactly max_books, and a run that accepted
\* max_books (>= 1) ended on the budget.
C2Theorem ==
    /\ [](stop = "budget" => scraped_count = max_books)
    /\ []((pc = "done" /\ Returned /\ max_books >= 1 /\ scraped_count = max_books)
            => stop = "budget")
    /\ [][scraped_count >= max_books =>
            /\ nav_count' = nav_count
            /\ loaded' = loaded
            /\ page_sleeps' = page_sleeps
            /\ calls' = calls \/ calls' = <<>>
            /\ scraped_count' = scraped_count]_vars

\* One of two links accepted with max_books = 1: the second is never visited.
C2Witness ==
    /\ pc = "done"
    /\ stop = "budget"
    /\ max_books = 1
    /\ scraped_count = 1
    /\ Len(book_links) = 2
    /\ idx = 2
    /\ nav_count = 1
    /\ skipped_count = 0
    /\ page_num = 1

\* C3, as claimed: a run whose loop ended on a listing page with zero links
\* returns the accepted count reached.  (The cancellation of the task is left
\* aside.)
C3Claim ==
    (stop = "empty" /\ pc = "done" /\ ret # Cancel)
        => (Returned /\ ret.v = scraped_count)

LastLoadFailed ==
    /\ Len(loaded) > 0
    /\ loaded[Len(loaded)].res \in {"none", "not_ok"}

\* C4, as claimed: a run whose last listing load was answered by None or a
\* non-success status returns the count accepted on the earlier pages.  (The
\* cancellation of the task is left aside.)
C4Claim ==
    (LastLoadFailed /\ stop = "load_failed" /\ pc = "done" /\ ret # Cancel)
        => (Returned /\ ret.v = scraped_count)

LookupFound ==
    /\ Len(calls) > 0
    /\ calls[1].op = "get_book_by_sku"
    /\ calls[1].res.t = "dict"

\* C5: a link whose identifier the lookup finds stored is skipped: the lookup
\* is the only call made for it (no wait, no navigation, no insert), the skip
\* counter goes up by one and the loop stands at the next link.
C5Theorem ==
    /\ [](LookupFound =>
            /\ Len(calls) = 1
            /\ pc = "for"
            /\ calls[1].arg = _extract_sku_from_url(book_links[idx]))
    /\ [][(pc = "for" /\ idx' = idx + 1 /\ LookupFound') =>
            /\ skipped_count' = skipped_count + 1
            /\ pc' = "for"
            /\ stop' = "none"
            /\ nav_count' = nav_count
            /\ scraped_count' = scraped_count
            /\ store' = store]_vars

\* Link 1 was skipped and the loop went on to navigate for link 2.
C5Witness ==
    /\ pc = "book_goto"
    /\ page_num = 1
    /\ idx = 2
    /\ skipped_count = 1
    /\ nav_count = 0

BlankTitle(page) ==
    \/ page.title.t # "str"
    \/ \A i \in 1..Len(page.title.v) : page.title.v[i] \in Whitespace

\* C6: every record handed to add_book has a non-empty title; an item page with
\* no title element or a blank title yields no record and the step after it
\* makes no call, stores nothing and counts nothing.
C6Theorem ==
    /\ [](\A i \in 1..Len(calls) :
            calls[i].op = "add_book" =>
                /\ calls[i].arg.v.title.t = "str"
                /\ Len(calls[i].arg.v.title.v) > 0)
    /\ []((pc = "hand_off" /\ item_page.t = "dict" /\ BlankTitle(item_page.v))
            => IsNone(book_data))
    /\ [][(pc = "hand_off" /\ item_page.t = "dict" /\ BlankTitle(item_page.v)) =>
            /\ calls' = calls
            /\ store' = store
            /\ scraped_count' = scraped_count
            /\ pc' = "for"]_vars

\* The page with the whitespace-only title was loaded and gave no record.
C6Witness ==
    /\ pc = "hand_off"
    /\ item_page.t = "dict"
    /\ item_page.v.title.t = "str"
    /\ Len(item_page.v.title.v) = 2
    /\ IsNone(book_data)

ExtractPcs ==
    {"book_sku", "book_title", "book_author", "book_price", "book_isbn",
     "book_condition", "book_binding", "book_description", "book_image",
     "book_publication"}
ItemPcs ==
    {"book_new_page", "book_goto", "book_wait", "book_close", "book_close_outside"}
    \cup ExtractPcs

\* C7: while scrape_book runs, whatever it returns and whatever Exception it
\* raises, the loop is not left and nothing is accepted; a returned None leaves
\* the accepted count as it is and the for loop goes on with the same page's
\* links.  (The cancellation of the task is left aside.)
C7Theorem ==
    /\ [][(pc \in ItemPcs /\ stop' # "cancelled") =>
            /\ pc' \in (ItemPcs \cup {"hand_off", "for"})
            /\ stop' = "none"
            /\ scraped_count' = scraped_count
            /\ page_num' = page_num
            /\ book_links' = book_links
            /\ idx' = idx]_vars
    /\ [][(pc = "hand_off" /\ IsNone(book_data)) =>
            /\ pc' = "for"
            /\ stop' = "none"
            /\ scraped_count' = scraped_count
            /\ page_num' = page_num
            /\ book_links' = book_links
            /\ idx' = idx]_vars

\* Link 1 was navigated to and not accepted (nothing is stored, so it was not
\* a rejected insert); the loop is navigating for link 2.
C7Witness ==
    /\ pc = "book_goto"
    /\ page_num = 1
    /\ idx = 2
    /\ nav_count = 1
    /\ scraped_count = 0
    /\ skipped_count = 0
    /\ store = {}

InsertRejected ==
    /\ Len(calls) > 0
    /\ LastCall.op = "add_book"
    /\ LastCall.res.v \in {<<"none">>, <<"raise">>}

\* C8, as claimed: an insert that add_book rejects raises the skip counter by
\* one, as a dedup-gate hit does.
C8Claim ==
    [][(pc = "hand_off" /\ InsertRejected') =>
            skipped_count' = skipped_count + 1]_vars

\* C9: an insert that add_book rejects, by returning no id or by raising, does
\* not end the loop and does not count as accepted; the for loop goes on with
\* the same page's links.
C9Theorem ==
    [][(pc = "hand_off" /\ InsertRejected') =>
            /\ scraped_count' = scraped_count
            /\ pc' = "for"
            /\ stop' = "none"
            /\ store' = store
            /\ page_num' = page_num
            /\ book_links' = book_links
            /\ idx' = idx]_vars

\* The first of two links was rejected and the loop stands before the second.
C9Witness ==
    /\ pc = "for"
    /\ stop = "none"
    /\ InsertRejected
    /\ idx = 1
    /\ Len(book_links) = 2
    /\ scraped_count = 0

IsGoto(c) == c.op = "goto"
IsInsert(c) == c.op = "add_book"

\* C10: the recorded run (three links on page 1, the second one stored, the
\* first and third with titles and the prices 9.99 and 20, max_books = 10,
\* page 2 empty) ends with accepted = 2 and skipped = 1, after two item
\* navigations, to links 1 and 3, and the listing loads of pages 1 and 2.
C10Theorem ==
    site = "fixture" =>
        /\ pc = "done" =>
            /\ scraped_count = 2
            /\ skipped_count = 1
            /\ Returned /\ ret.v = 2
            /\ nav_count = 2
            /\ LoadedPages = <<1, 2>>
            /\ page_sleeps = 1
        /\ \A i \in 1..Len(calls) :
            /\ IsGoto(calls[i]) =>
                /\ page_num = 1
                /\ idx \in {1, 3}
                /\ calls[i].arg.v = FixtureListing(1)[idx]
                /\ nav_count = (IF idx = 1 THEN 1 ELSE 2)
            /\ IsInsert(calls[i]) =>
                calls[i].arg.v.wob_price.v = (IF idx = 1 THEN 999 ELSE 2000)

C10Witness ==
    /\ site = "fixture"
    /\ pc = "done"
    /\ store = FixtureStore \cup {_extract_sku_from_url(UrlA).v, FallbackSku(UrlC, hash_seed).v}

\* --------------------------------------------------- properties, C11 to C20

LoopExits == {"budget", "empty", "load_failed", "exception"}

\* C11, as claimed: on every exit path of the loop the value returned to the
\* caller is a summary that holds both the accepted and the skipped count.
C11Claim ==
    (pc = "done" /\ stop \in LoopExits) =>
        /\ ret.t = "dict"
        /\ ret.v.accepted = scraped_count
        /\ ret.v.skipped = skipped_count

\* C12, as claimed: once the session is started the run does not raise, and
\* returns the accepted count.  (The cancellation of the task is left aside.)
C12Claim ==
    /\ ret.t = "raise" => session = "none"
    /\ (pc = "done" /\ session # "none" /\ stop # "cancelled" /\ ret # Cancel)
        => (Returned /\ ret.v = scraped_count)

PagesOpen == (IF listing_open THEN 1 ELSE 0) + book_pages_open

\* C13, as claimed: a run that started its session ends with the session
\* closed and no page handle open, whichever way the loop was left.  (The
\* cancellation of the task is left aside.)
C13Claim ==
    (pc = "done" /\ session # "none" /\ stop # "cancelled" /\ ret # Cancel)
        => (session = "closed" /\ PagesOpen = 0)

\* C14, as claimed: at most one page handle is open in every state.
C14Claim == PagesOpen <= 1

FallbackHandedOff(c) ==
    /\ c.op = "add_book"
    /\ c.arg.v.sku = FallbackSku(book_links[idx], hash_seed)

\* C16, as claimed: the fallback identifier a run stores for a URL is the one
\* every other process execution, with its own hash seed, synthesizes for it.
C16Claim ==
    \A i \in 1..Len(calls) :
        FallbackHandedOff(calls[i]) =>
            \A seed \in HashSeeds :
                FallbackSku(book_links[idx], seed) = calls[i].arg.v.sku

Parsed(op) == parse_op = op /\ parse_out # Pending
Yields(cents) == parse_out.t = "num" /\ parse_out.v = cents
Contains(s, sub) == \E i \in 1..Len(s) : Occurs(s, sub, i)
NoDigit(s) == \A k \in 1..Len(s) : s[k] \notin Digits
\* sub occurs in s with no digit anywhere before it.
FirstAmount(s, sub) ==
    \E i \in 1..Len(s) : Occurs(s, sub, i) /\ NoDigit(SubSeq(s, 1, i - 1))

\* C17, as claimed: 12.34 for every text containing "€12.34" or "12.34", 15.00
\* for "15", null for empty text and for text without a digit.
C17Claim ==
    (Parsed("price") /\ parse_in.t = "str") =>
        /\ Contains(parse_in.v, Amount1234) => Yields(1234)
        /\ parse_in.v = <<"1", "5">> => Yields(1500)
        /\ NoDigit(parse_in.v) => IsNone(parse_out)

\* C17, amended: 12.34 for every text in which "€12.34" or "12.34" occurs with
\* no digit before it, whatever follows; 15.00 for "15", in the digits of
\* another script too; null for None, for empty text and for text without a
\* digit.  A digit is a decimal digit of any script.
C17Theorem ==
    Parsed("price") =>
        /\ IsNone(parse_in) => IsNone(parse_out)
        /\ parse_in.t = "str" =>
            /\ FirstAmount(parse_in.v, Amount1234) => Yields(1234)
            /\ parse_in.v = <<"1", "5">> => Yields(1500)
            /\ parse_in.v = NkoAmount15 => Yields(1500)
            /\ NoDigit(parse_in.v) => IsNone(parse_out)

C17Witness ==
    /\ Parsed("price")
    /\ parse_in = Str(<<"a", "€">> \o Amount1234 \o <<"9">>)
    /\ Yields(1234)

KeywordAt(s, k) ==
    /\ k + 3 <= Len(s)
    /\ \A m \in 1..4 : s[k + m - 1] \in IsbnKeyword[m]
\* The marker "ISBN: 9781234567890" occurs in s and the keyword ISBN, in any
\* letter case, does not occur before it.
MarkerFirst(s) ==
    \E i \in 1..Len(s) :
        /\ Occurs(s, IsbnMarker, i)
        /\ \A k \in 1..(i - 1) : ~KeywordAt(s, k)
NoKeyword(s) == \A k \in 1..Len(s) : ~KeywordAt(s, k)
OnlyIsbnChars ==
    \/ IsNone(parse_out)
    \/ /\ parse_out.t = "str"
       /\ \A k \in 1..Len(parse_out.v) : parse_out.v[k] \in AsciiDigits \cup {"X"}

\* C18, as claimed: the result is null or made of 0-9 and X only, and it is
\* "9781234567890" for every details text containing "ISBN: 9781234567890".
C18Claim ==
    (Parsed("isbn") /\ parse_in.t = "dict") =>
        /\ OnlyIsbnChars
        /\ (parse_in.v.details.t = "str"
              /\ Contains(parse_in.v.details.v, IsbnMarker))
             => parse_out = Str(Isbn13)

\* C18, amended: the result is null or made of 0-9 and X only; it is
\* "9781234567890" when "ISBN: 9781234567890" is the first occurrence of the
\* keyword in the details text, and when it is the first in the page text while
\* the details text has no keyword and the structured data no isbn the script
\* takes as true; an isbn of the structured data that the script takes as true
\* and that is no text (an empty list, a number) gives null whatever the page
\* text holds.
C18Theorem ==
    Parsed("isbn") =>
        /\ OnlyIsbnChars
        /\ parse_in.t = "raise" => IsNone(parse_out)
        /\ parse_in.t = "dict" =>
            /\ (parse_in.v.details.t = "str" /\ MarkerFirst(parse_in.v.details.v))
                 => parse_out = Str(Isbn13)
            /\ (/\ parse_in.v.details.t = "str" => NoKeyword(parse_in.v.details.v)
                /\ ~JsTruthy(parse_in.v.json)
                /\ MarkerFirst(parse_in.v.body.v))
                 => parse_out = Str(Isbn13)
            /\ (/\ parse_in.v.details.t = "str" => NoKeyword(parse_in.v.details.v)
                /\ JsTruthy(parse_in.v.json)
                /\ parse_in.v.json.t # "str")
                 => IsNone(parse_out)

\* The marker sits inside other text; the structured data's isbn is not used.
C18Witness ==
    /\ Parsed("isbn")
    /\ parse_in.t = "dict"
    /\ parse_in.v.details = Str(<<"a", " ">> \o IsbnMarker \o <<"1">>)
    /\ Truthy(parse_in.v.json)
    /\ parse_out = Str(Isbn13)

LinkPcs == {"for", "throttle", "hand_off"} \cup ItemPcs

\* C19, as claimed: no step taken while one link is processed ends the
\* pagination loop; the loop is only left on a failed listing load, an empty
\* listing page or the budget.
C19Claim == [][(pc \in LinkPcs) => stop' = "none"]_vars

IsLookup(c) == c.op = "get_book_by_sku"

\* C20, as claimed: whenever an item page is navigated, a dedup lookup for that
\* link came first, whatever the URL.
C20Claim ==
    \A i \in 1..Len(calls) :
        IsGoto(calls[i]) => (i > 1 /\ IsLookup(calls[1]))

\* C20, amended: when the link's URL yields an identifier (a final path segment
\* longer than 5 characters), the navigation to its item page is preceded by
\* the dedup lookup of that identifier, which found nothing; a link whose URL
\* yields none is navigated without a lookup.
C20Theorem ==
    \A i \in 1..Len(calls) :
        IsGoto(calls[i]) =>
            LET sku == _extract_sku_from_url(book_links[idx])
            IN  /\ Truthy(sku) =>
                    /\ i > 1
                    /\ IsLookup(calls[1])
                    /\ calls[1].arg = sku
                    /\ IsNone(calls[1].res)
                /\ ~Truthy(sku) =>
                    \A j \in 1..Len(calls) : ~IsLookup(calls[j])

\* A link with an identifier in its URL was looked up, waited for and navigated.
C20Witness ==
    /\ pc = "book_title"
    /\ Len(calls) = 3
    /\ IsLookup(calls[1])
    /\ calls[1].arg = _extract_sku_from_url(UrlA)
    /\ calls[2].op = "sleep"
    /\ IsGoto(calls[3])
    /\ calls[3].arg = Str(UrlA)

\* --------------------------------------------------- properties, C21 to C30

\* C21, as claimed: scrape_book leaves no item page open when it hands control
\* back: no item page is open when the for loop takes up the next link or the
\* returned record is examined.
C21Claim == (pc \in {"for", "hand_off"}) => book_pages_open = 0

\* C22, as claimed: max_books bounds the run, that is, max_books less the
\* accepted count is a variant of the pagination loop: a pass of the loop that
\* leads to a further listing page has accepted an item, so that the run is at
\* page scraped_count + 1 at most and is over after max_books such passes.
C22Claim == page_num <= scraped_count + 1

\* C23: the URL of page 1 is the target URL; the URL of page n >= 2 is the
\* target URL followed by one suffix: "&" when the target URL has a "?" and "?"
\* when it has none, then "page=", then the decimal digits of n.
C23Theorem ==
    Parsed("url") =>
        LET t == parse_in.v.target_url
            n == parse_in.v.page_num
            u == parse_out.v
            suffix == SubSeq(u, Len(t) + 1, Len(u))
            digits == SubSeq(suffix, 7, Len(suffix))
        IN  /\ Len(u) >= Len(t)
            /\ SubSeq(u, 1, Len(t)) = t
            /\ n = 1 => suffix = <<>>
            /\ n >= 2 =>
                /\ Len(suffix) >= 7
                /\ suffix[1] = (IF Contains(t, <<"?">>) THEN "&" ELSE "?")
                /\ SubSeq(suffix, 2, 6) = PageParam
                /\ \A k \in 1..Len(digits) : digits[k] \in AsciiDigits
                /\ digits[1] # "0"
                /\ ToInt(digits) = n

C23Witness ==
    /\ Parsed("url")
    /\ parse_in.v.target_url = WOB_TARGET_URL \o <<"?", "s", "=", "1">>
    /\ parse_in.v.page_num = 11
    /\ parse_out = Str(WOB_TARGET_URL \o <<"?", "s", "=", "1", "&", "p", "a", "g", "e", "=", "1", "1">>)

\* C24: the listing pages requested are pages 1, 2, 3, ... in this order, each
\* once; the page index changes only in the pagination step, by exactly one,
\* when every link of the page has been considered and the accepted count is
\* under max_books; and the page requested is the one the index names.
C24Theorem ==
    /\ [](LoadedPages = Counting)
    /\ [][page_num' # page_num =>
            /\ pc = "paginate"
            /\ idx = Len(book_links)
            /\ scraped_count < max_books
            /\ page_num' = page_num + 1
            /\ page_num = Len(loaded)]_vars
    /\ [][loaded' # loaded =>
            /\ pc = "while"
            /\ scraped_count < max_books
            /\ Len(loaded') = Len(loaded) + 1
            /\ SubSeq(loaded', 1, Len(loaded)) = loaded
            /\ loaded'[Len(loaded')].page = page_num
            /\ page_num' = page_num]_vars

\* Page 2 was requested after page 1 gave one accepted item of two wanted.
C24Witness ==
    /\ pc = "extract_links"
    /\ LoadedPages = <<1, 2>>
    /\ page_num = 2
    /\ scraped_count = 1
    /\ max_books = 2

IsSleep(c) == c.op = "sleep"
Sleeps == {j \in 1..Len(calls) : IsSleep(calls[j])}

\* C25: the call before every item-page navigation is the item wait, the only
\* wait made for that link, and it comes after the link's dedup lookup; a
\* skipped link gets no wait; every listing load but the first comes after
\* exactly one page wait since the load before it; a run stopped by the budget,
\* an empty page or a failed load has made no page wait after its last load.
C25Theorem ==
    /\ [](\A i \in 1..Len(calls) :
            IsGoto(calls[i]) =>
                /\ i > 1
                /\ IsSleep(calls[i - 1])
                /\ IsNone(calls[i - 1].res)
                /\ Sleeps = {i - 1}
                /\ \A j \in 1..Len(calls) : IsLookup(calls[j]) => j < i - 1)
    /\ [](LookupFound => Sleeps = {})
    /\ [][skipped_count' # skipped_count =>
            \A j \in 1..Len(calls') : ~IsSleep(calls'[j])]_vars
    /\ [][loaded' # loaded => page_sleeps = Len(loaded)]_vars
    /\ [][page_sleeps' # page_sleeps =>
            /\ page_sleeps' = page_sleeps + 1
            /\ pc = "paginate"
            /\ pc' = "while"]_vars
    /\ []((pc = "done" /\ stop \in {"budget", "empty", "load_failed"}) =>
            page_sleeps = Max({Len(loaded) - 1, 0}))

\* A link was looked up, waited for and navigated on page 1, and the run went
\* on to page 2 after one page wait.
C25Witness ==
    /\ pc = "done"
    /\ stop = "empty"
    /\ nav_count = 1
    /\ skipped_count = 1
    /\ LoadedPages = <<1, 2>>
    /\ page_sleeps = 1

\* C26: with SCRAPE_DELAY_MIN <= SCRAPE_DELAY_MAX, an item delay lies between
\* the two and a page delay between SCRAPE_DELAY_MAX and SCRAPE_DELAY_MAX + 3,
\* either limit included; an item delay is at most every page delay that can
\* be drawn under the same limits, and a page delay at least every such item
\* delay.
C26Theorem ==
    /\ (Parsed("delay") /\ parse_in.v.SCRAPE_DELAY_MIN <= parse_in.v.SCRAPE_DELAY_MAX) =>
            /\ Seconds(parse_in.v.SCRAPE_DELAY_MIN) <= parse_out.v
            /\ parse_out.v <= Seconds(parse_in.v.SCRAPE_DELAY_MAX)
            /\ \A page_delay \in page_delay_range(parse_in.v.SCRAPE_DELAY_MIN,
                                                   parse_in.v.SCRAPE_DELAY_MAX) :
                    parse_out.v <= page_delay
    /\ (Parsed("page_delay") /\ parse_in.v.SCRAPE_DELAY_MIN <= parse_in.v.SCRAPE_DELAY_MAX) =>
            /\ Seconds(parse_in.v.SCRAPE_DELAY_MAX) <= parse_out.v
            /\ parse_out.v <= Seconds(parse_in.v.SCRAPE_DELAY_MAX + 3)
            /\ \A delay \in delay_range(parse_in.v.SCRAPE_DELAY_MIN,
                                         parse_in.v.SCRAPE_DELAY_MAX) :
                    delay <= parse_out.v

\* Limits of 1 and 2 seconds: the shortest page delay, 2 s, which is also the
\* longest item delay.
C26Witness ==
    /\ Parsed("page_delay")
    /\ parse_in.v.SCRAPE_DELAY_MIN = 1
    /\ parse_in.v.SCRAPE_DELAY_MAX = 2
    /\ parse_out.v = Seconds(2)

Discovered == pc' # pc /\ pc = "extract_links"

\* C27: the links the item loop works on are the evaluated list as it came,
\* duplicates included; the loop leaves them unchanged and takes them one
\* position at a time from the first on, and the link navigated is the one at
\* the loop's position.
C27Theorem ==
    /\ [][(Discovered /\ raw_links'.t = "list") =>
            (book_links' = raw_links'.v /\ idx' = 0)]_vars
    /\ [][(pc \in LinkPcs) =>
            /\ book_links' = book_links
            /\ idx' \in {idx, idx + 1}
            /\ idx' # idx => (pc = "for" /\ idx < Len(book_links))]_vars
    /\ [][(pc = "for" /\ pc' = "paginate") =>
            (idx = Len(book_links) \/ scraped_count >= max_books)]_vars
    /\ [](\A i \in 1..Len(calls) :
            IsGoto(calls[i]) => calls[i].arg = Str(book_links[idx]))

\* The same URL came twice and was navigated twice.
C27Witness ==
    /\ raw_links = List(<<UrlC, UrlC>>)
    /\ book_links = <<UrlC, UrlC>>
    /\ idx = 2
    /\ nav_count = 2
    /\ \E i \in 1..Len(calls) : IsGoto(calls[i]) /\ calls[i].arg = Str(UrlC)

\* C28: an evaluation that raises an Exception, gives null or gives the empty
\* list leaves the orchestrator with the empty sequence, and each of the three
\* ends the pagination loop as a page without links does: the listing page is
\* closed next, no exception is reported, nothing more is requested.  (The
\* cancellation of the task is left aside.)
C28Theorem ==
    /\ [][(Discovered /\ raw_links' # Cancel
                /\ (raw_links'.t # "list" \/ raw_links'.v = <<>>)) =>
            /\ book_links' = <<>>
            /\ stop' = "empty"
            /\ pc' = "close_page"
            /\ loaded' = loaded
            /\ nav_count' = nav_count]_vars
    /\ [][(Discovered /\ raw_links' # Cancel) =>
            (stop' # "exception" /\ pc' \in {"for", "close_page"})]_vars
    /\ []((pc = "done" /\ stop = "empty") =>
            (raw_links.t # "list" \/ raw_links.v = <<>>))

\* The evaluation raised on page 1 and the run ended as on an empty page.
C28Witness ==
    /\ pc = "done"
    /\ raw_links = Raise
    /\ stop = "empty"
    /\ book_links = <<>>
    /\ Returned
    /\ LoadedPages = <<1>>

\* The part of url between its last "/" that has a later character other than
\* "/" and the slashes the url ends with.
LastSegment(url) ==
    LET solid == {i \in 1..Len(url) : url[i] # "/"}
        last == IF solid = {} THEN 0 ELSE Max(solid)
        first == Min({b \in 1..(last + 1) : \A k \in b..last : url[k] # "/"})
    IN  SubSeq(url, first, last)

\* C29: the identifier is the URL's last segment when that has more than 5
\* characters, whatever the page holds; else the value of the page query when
\* that is a non-empty text, a number other than 0 or a non-empty object; else
\* (null, empty, 0, or the query raising) the hash fallback of the URL; it is
\* never null and never empty.
C29Theorem ==
    Parsed("sku") =>
        LET segment == LastSegment(parse_in.v.url)
            on_page == parse_in.v.page_sku
            page_has ==
                \/ on_page.t = "str" /\ Len(on_page.v) > 0
                \/ on_page.t = "num" /\ on_page.v # 0
                \/ on_page.t = "dict"
        IN  /\ Len(segment) > 5 => parse_out = Str(segment)
            /\ (Len(segment) <= 5 /\ page_has) => parse_out = on_page
            /\ (Len(segment) <= 5 /\ ~page_has) =>
                    /\ parse_out = FallbackSku(parse_in.v.url, hash_seed)
                    /\ SubSeq(parse_out.v, 1, 4) = <<"W", "O", "B", "-">>
            /\ parse_out.t # "none"
            /\ parse_out.t = "str" => Len(parse_out.v) > 0

\* A five-character segment and a page query that raises: the fallback.
C29Witness ==
    /\ Parsed("sku")
    /\ parse_in.v.url = UrlC
    /\ parse_in.v.page_sku = Raise
    /\ parse_out = FallbackSku(UrlC, hash_seed)

\* C30: for a hash value of either sign the fallback identifier is "WOB-" and
\* then exactly 7 decimal digits, no sign among them; the number they denote is
\* in 0..9999999 and differs from the hash value by a multiple of 10000000.
C30Theorem ==
    Parsed("fallback") =>
        LET token == SubSeq(parse_out.v, 5, Len(parse_out.v))
        IN  /\ parse_out.t = "str"
            /\ SubSeq(parse_out.v, 1, 4) = <<"W", "O", "B", "-">>
            /\ Len(token) = 7
            /\ \A k \in 1..Len(token) : token[k] \in AsciiDigits
            /\ ToInt(token) \in 0..(FallbackModulus - 1)
            /\ (ToInt(token) - parse_in.v.sign * parse_in.v.low) % FallbackModulus = 0
            /\ parse_in.v.sign = 1 => ToInt(token) = parse_in.v.low

\* The hash value -1 gives WOB-9999999.
C30Witness ==
    /\ Parsed("fallback")
    /\ parse_in.v = Widen(-1)
    /\ parse_out = Str(<<"W", "O", "B", "-", "9", "9", "9", "9", "9", "9", "9">>)

\* --------------------------------------------------- properties, C31 to C38

\* The last call made for the current link is a navigation answered by no
\* response or by a non-success status.
GotoFailed ==
    /\ Len(calls) > 0
    /\ IsGoto(LastCall)
    /\ LastCall.res.v \in {<<"none">>, <<"not_ok">>}

\* C31: an item-page navigation answered by no response or a non-success
\* status gives no record: nothing is read from the page, the page is closed
\* next and scrape_book returns None or raises what that close() raises, no
\* step after it makes an insert for the link, and the store and both counters
\* stay as they are until the loop stands at the next link or is left.
C31Theorem ==
    /\ [](GotoFailed =>
            /\ pc \in {"book_close_outside", "hand_off", "for", "finally", "done"}
            /\ IsNone(item_page)
            /\ IsNone(book_data))
    /\ [][GotoFailed' =>
            /\ scraped_count' = scraped_count
            /\ skipped_count' = skipped_count
            /\ store' = store]_vars
    /\ [][(GotoFailed /\ pc = "book_close_outside") =>
            (calls' = calls /\ pc' \in {"hand_off", "for", "finally"})]_vars
    /\ [][(GotoFailed /\ pc = "hand_off") =>
            (calls' = calls /\ pc' = "for")]_vars
    /\ [][(GotoFailed /\ pc # "for") =>
            /\ scraped_count' = scraped_count
            /\ skipped_count' = skipped_count
            /\ store' = store]_vars

\* The second link's page answered with a non-success status after the first
\* link was accepted; the loop stands at the third position.
C31Witness ==
    /\ GotoFailed
    /\ LastCall.res.v = <<"not_ok">>
    /\ pc = "for"
    /\ idx = 2
    /\ scraped_count = 1

\* Where scrape_book stands once it has the title: at the extraction of an
\* optional field.
OptionalPcs == ExtractPcs \ {"book_sku", "book_title"}

\* C32, as claimed: once the title is there, scrape_book goes from one optional
\* field to the next whatever the extraction of the field comes to, the image
\* query raising included, up to the record, which has every field name of the
\* record shape; and the record handed to add_book has the category tag and a
\* null subcategory besides.  (The cancellation of the task is left aside.)
C32Claim ==
    /\ [][(pc \in OptionalPcs /\ stop' # "cancelled") =>
            \/ pc' \in OptionalPcs
            \/ /\ pc' = "book_close"
               /\ book_data'.t = "dict"
               /\ DOMAIN book_data'.v = RecordShape]_vars
    /\ [](\A i \in 1..Len(calls) :
            IsInsert(calls[i]) =>
                /\ DOMAIN calls[i].arg.v = RecordShape \cup {"category", "subcategory"}
                /\ calls[i].arg.v.category = Str(RareNonFiction)
                /\ IsNone(calls[i].arg.v.subcategory))

BlankText(text) ==
    \/ text.t # "str"
    \/ \A i \in 1..Len(text.v) : text.v[i] \in Whitespace

\* The step hands a record to add_book.
Inserts == pc = "hand_off" /\ calls' # calls /\ IsInsert(calls'[Len(calls')])

\* C33, as claimed: every record handed to add_book has a non-empty identifier
\* and a non-empty author, and the author is "Unknown" exactly when _get_text
\* got no non-empty author text from the page.
C33Claim ==
    /\ [][Inserts =>
            LET record == calls'[Len(calls')].arg.v
            IN  /\ Truthy(record.sku)
                /\ record.author.t = "str"
                /\ Len(record.author.v) > 0]_vars
    /\ [][(pc = "book_author" /\ pc' = "book_price") =>
            (extracted'.author = Str(Unknown) <=> ~Truthy(got_text'))]_vars

\* C33, amended: every record handed to add_book has a non-empty identifier
\* and a non-empty author.  The author is the text _get_text got from the page
\* when that is not empty, which is the stripped text of the page's author
\* element, and "Unknown" otherwise: when the page has no author element or
\* only blank text in it, and when the query or the reading of the element
\* raised.  So the author is "Unknown" when no author text was got and when
\* the text got is itself "Unknown", and in no other case.
C33Theorem ==
    /\ [][Inserts =>
            LET record == calls'[Len(calls')].arg.v
                on_page == item_page.v.author
            IN  /\ Truthy(record.sku)
                /\ record.author.t = "str"
                /\ Len(record.author.v) > 0
                /\ BlankText(on_page) => record.author = Str(Unknown)
                /\ record.author # Str(Unknown) =>
                        /\ ~BlankText(on_page)
                        /\ record.author.v = StripChars(on_page.v, Whitespace)
                /\ (site = "fixture" /\ ~BlankText(on_page)) =>
                        record.author.v = StripChars(on_page.v, Whitespace)]_vars
    /\ [][(pc = "book_author" /\ pc' = "book_price") =>
            LET on_page == item_page.v.author
            IN  /\ \/ got_text' = None
                   \/ /\ on_page.t = "str"
                      /\ got_text' = Str(StripChars(on_page.v, Whitespace))
                /\ extracted'.author =
                        (IF Truthy(got_text') THEN got_text' ELSE Str(Unknown))
                /\ extracted'.author = Str(Unknown) <=>
                        (~Truthy(got_text') \/ got_text' = Str(Unknown))]_vars
    /\ [](pc \in {"book_author", "book_price"} =>
            element \in {Pending, item_page.v[Selector[pc]]})

\* The record of a page whose author element holds "Z" was handed over with
\* the author "Z".
C33Witness ==
    /\ Len(calls) > 0
    /\ IsInsert(LastCall)
    /\ LastCall.arg.v.title = Str(<<"A">>)
    /\ LastCall.arg.v.author = Str(<<"Z">>)

\* C34: while scrape_book runs the two counters and the page index stay as they
\* are; a step changes at most one of the two counters, by one, upwards: the
\* skip counter when the for loop skips a stored link, the accepted counter when
\* the record of a link that was not skipped is handed over; a link is taken
\* up only by the for loop; once the loop is over nothing changes any of them.
C34Theorem ==
    /\ [][(pc \in ItemPcs \cup {"throttle"}) =>
            /\ scraped_count' = scraped_count
            /\ skipped_count' = skipped_count
            /\ page_num' = page_num]_vars
    /\ [][scraped_count' # scraped_count =>
            /\ scraped_count' = scraped_count + 1
            /\ skipped_count' = skipped_count
            /\ pc = "hand_off"
            /\ pc' = "for"
            /\ ~LookupFound]_vars
    /\ [][skipped_count' # skipped_count =>
            /\ skipped_count' = skipped_count + 1
            /\ scraped_count' = scraped_count
            /\ pc = "for"
            /\ pc' = "for"
            /\ LookupFound']_vars
    /\ [][idx' # idx => pc \in {"for", "extract_links"}]_vars
    /\ [][LoopOver =>
            /\ scraped_count' = scraped_count
            /\ skipped_count' = skipped_count
            /\ page_num' = page_num]_vars

\* One link was skipped and one accepted on the same page, and the run is over.
C34Witness ==
    /\ pc = "done"
    /\ scraped_count = 1
    /\ skipped_count = 1
    /\ page_num = 1
    /\ Len(book_links) = 2

\* C35: in every state the accepted count is the number of inserts that
\* returned an id so far, the skipped count is the number of lookups that found
\* a record so far, and the two together are at most the number of links the
\* for loop has taken up.
C35Theorem ==
    /\ scraped_count = tally.ids
    /\ skipped_count = tally.hits
    /\ scraped_count + skipped_count <= tally.links

\* Of two links one was skipped and the other gave nothing.
C35Witness ==
    /\ pc = "done"
    /\ tally = [links |-> 2, hits |-> 1, ids |-> 0]
    /\ scraped_count = 0
    /\ skipped_count = 1

\* The identifier a URL carries: its last segment when longer than 5 characters.
UrlToken(url) == IF Len(LastSegment(url)) > 5 THEN LastSegment(url) ELSE <<>>
Stored(url) == UrlToken(url) # <<>> /\ UrlToken(url) \in store

\* C36: with a store whose lookup answers from every earlier insert, a link
\* whose URL carries an identifier the store holds (from this page, an earlier
\* page or an earlier run) is never navigated: when the for loop takes it up
\* the lookup finds it and the loop goes on to the next link; and a record with
\* the identifier of its URL is handed to add_book only when the store does not
\* hold that identifier.
C36Theorem ==
    /\ [][(pc \in {"throttle"} \cup ItemPcs) => ~Stored(book_links[idx])]_vars
    /\ [][(pc = "for" /\ idx' = idx + 1 /\ pc' # "paginate" /\ Stored(book_links[idx + 1])) =>
            /\ pc' = "for"
            /\ LookupFound'
            /\ nav_count' = nav_count]_vars
    /\ [][(Inserts /\ UrlToken(book_links[idx]) # <<>>) =>
            /\ calls'[Len(calls')].arg.v.sku = Str(UrlToken(book_links[idx]))
            /\ ~Stored(book_links[idx])]_vars

\* The record of w/book01 was accepted on page 1 and a link to the same URL is
\* skipped on page 2.
C36Witness ==
    /\ page_num = 2
    /\ LookupFound
    /\ calls[1].arg = Str(<<"b", "o", "o", "k", "0", "1">>)
    /\ book_links[idx] = UrlA
    /\ scraped_count = 1

\* The run is without a session, or without a listing page handle: new_page
\* gave none, or raised before any listing page was requested.
NoListingPage ==
    \/ stop \in {"no_session", "no_page"}
    \/ stop = "exception" /\ loaded = <<>>

\* Nothing was requested, looked up, waited for or inserted.
NothingDone ==
    /\ loaded = <<>>
    /\ nav_count = 0
    /\ page_sleeps = 0
    /\ calls = <<>>
    /\ tally = [links |-> 0, hits |-> 0, ids |-> 0]
    /\ scraped_count = 0
    /\ skipped_count = 0

\* C37, as claimed: a run that gets no browser or context, or no listing page
\* handle, ends returning 0, with the session closed and no page open, and has
\* requested no listing page, navigated to no item page, looked up nothing,
\* waited for nothing and inserted nothing.  (The cancellation of the task is
\* left aside.)
C37Claim ==
    (NoListingPage /\ pc = "done" /\ ret # Cancel) =>
        /\ ret = Num(0)
        /\ session = "closed"
        /\ PagesOpen = 0
        /\ NothingDone

\* The words of a term each with a capital first letter.
TitleCase(term) ==
    [k \in 1..Len(term) |->
        IF k = 1 \/ term[k - 1] = " " THEN toUpperCase(<<term[k]>>)[1]
        ELSE toLowerCase(<<term[k]>>)[1]]

\* Positions of the text at which some term of the vocabulary matches.
TermPositions(text) ==
    {i \in 1..Len(text) : \E k \in 1..Len(bindingTerms) : TermAt(text, bindingTerms[k], i)}

\* The term that matches earliest in the text.
FirstTextualTerm(text) ==
    LET first == Min(TermPositions(text))
    IN  bindingTerms[CHOOSE k \in 1..Len(bindingTerms) : TermAt(text, bindingTerms[k], first)]

\* C38: the binding is null when there is no details container or no term of
\* the vocabulary matches as a whole word; otherwise it is the term matching
\* earliest in the details text, every word written with a capital first letter.
C38Claim ==
    (Parsed("binding") /\ parse_in.t # "raise") =>
        parse_out =
            IF parse_in.t = "none" \/ TermPositions(parse_in.v) = {} THEN None
            ELSE Str(TitleCase(FirstTextualTerm(parse_in.v)))

\* What the extractor does return: the first term of the vocabulary, in the
\* order of the list, that matches anywhere in the text, with only its first
\* letter a capital.
C38Returned ==
    (Parsed("binding") /\ parse_in.t = "str" /\ TermPositions(parse_in.v) # {}) =>
        \E k \in 1..Len(bindingTerms) :
            /\ regex_test(parse_in.v, bindingTerms[k])
            /\ \A j \in 1..(k - 1) : ~regex_test(parse_in.v, bindingTerms[j])
            /\ parse_out = Str(toUpperCase(<<bindingTerms[k][1]>>) \o Tail(bindingTerms[k]))

====
